---- MODULE Spec2Model ----
(***************************************************************************)
(* MorphShop backend: the project pipeline (app/api/projects.py) and the   *)
(* job execution helper it drives (app/api/tasks.py, submit_and_poll_task).*)
(*                                                                         *)
(* One project is modelled.  The persisted project row is `project`, the   *)
(* persisted Task rows are `tasks`, and every background pipeline loop     *)
(* scheduled by start_pipeline is one entry of `runs` (its local           *)
(* variables and its position in the code).  Each action is one            *)
(* load/modify/commit cycle of a session.                                  *)
(***************************************************************************)
EXTENDS Integers, Sequences, FiniteSets, TLC

VARIABLES
    project,    \* the persisted Project row
    tasks,      \* the persisted Task rows, in creation order (index = Task.id)
    runs,       \* background loops: locals and position of each _run_project_pipeline
    nextAsset,  \* next Asset.id the database hands out
    remote,     \* calls made to the remote job API: records [op, task]
    startLimit, \* start_pipeline calls still accepted in this behaviour
    probe       \* argument and result of the latest pure-function evaluation

vars == <<project, tasks, runs, nextAsset, remote, startLimit, probe>>

----------------------------------------------------------------------------
(* Bounds *)

MaxRuns == 1        \* start_pipeline calls accepted in one behaviour
MaxRaceRuns == 2    \* the same, where concurrent starts are examined
MaxTasks == 3       \* Task rows created in one behaviour
MaxOrderLen == 3    \* longest stored workflow_steps list enumerated
MaxOutputs == 2     \* most output items in a remote payload

----------------------------------------------------------------------------
(* Values *)

NoId == 0           \* Python None for an integer id (falsy, like None)
None == "None"      \* Python None for a string

ModelImageId == 1
ClothingImageId == 2
BackgroundImageId == 3
OldTryOnResultId == 4
OldBackgroundResultId == 5
OldVideoResultId == 6
FirstNewAssetId == 7

_BASE_STEP_ORDER == <<"try_on", "background", "video">>

StepNames == {"try_on", "background", "video"}

_STEP_OUTPUT_TYPE == [s \in StepNames |-> IF s = "video" THEN "video" ELSE "image"]

_STEP_PERSON_INPUT_TYPE == [s \in StepNames |-> "image"]

Range(seq) == {seq[i] : i \in 1..Len(seq)}

\* list.index(x): position of the first occurrence
IndexOf(seq, x) == CHOOSE i \in 1..Len(seq) : seq[i] = x /\ \A j \in 1..(i-1) : seq[j] # x

SeqsUpTo(S, n) == UNION {[1..k -> S] : k \in 0..n}

----------------------------------------------------------------------------
(* The stored workflow_steps column is JSON text.  A value is modelled by  *)
(* what json.loads makes of it.                                            *)

JsonDumps(steps) == [kind |-> "list", items |-> steps]

StoredNull == [kind |-> "null", items |-> <<>>]        \* NULL column
StoredEmpty == [kind |-> "empty", items |-> <<>>]      \* ''
StoredInvalid == [kind |-> "invalid", items |-> <<>>]  \* text json.loads rejects
StoredNonList == [kind |-> "nonlist", items |-> <<>>]  \* valid JSON, not a list

\* _parse_steps: None unless the text parses to a list
_parse_steps(value) ==
    IF value.kind \in {"null", "empty"} THEN [isNone |-> TRUE, list |-> <<>>]
    ELSE IF value.kind = "list" THEN [isNone |-> FALSE, list |-> value.items]
    ELSE [isNone |-> TRUE, list |-> <<>>]

RECURSIVE FilterSeq(_, _)
\* [s for s in seq if s in keep]
FilterSeq(seq, keep) ==
    IF seq = <<>> THEN <<>>
    ELSE IF Head(seq) \in keep THEN <<Head(seq)>> \o FilterSeq(Tail(seq), keep)
    ELSE FilterSeq(Tail(seq), keep)

EnabledSet(p) == {s \in StepNames : p.enable[s]}

_default_steps_for_project(p) == FilterSeq(_BASE_STEP_ORDER, EnabledSet(p))

RECURSIVE AppendUnseen(_, _, _)
\* for s in seq: if s in allowed and s not in seen: out.append(s); seen.add(s)
AppendUnseen(out, seq, allowed) ==
    IF seq = <<>> THEN out
    ELSE IF Head(seq) \in allowed /\ Head(seq) \notin Range(out)
         THEN AppendUnseen(Append(out, Head(seq)), Tail(seq), allowed)
         ELSE AppendUnseen(out, Tail(seq), allowed)

\* mutant: the membership test `s not in seen` is dropped from the first loop
ConfiguredPassKeepsDuplicates(configured, enabled) == FilterSeq(configured, enabled)

\* the first loop of _steps_for_project
ConfiguredPass(configured, enabled) == AppendUnseen(<<>>, configured, enabled)

BasePass(out, enabled) == AppendUnseen(out, _BASE_STEP_ORDER, enabled)

_steps_for_project(p) ==
    LET configured == _parse_steps(p.workflow_steps)
    IN  IF configured.isNone \/ configured.list = <<>>
        THEN _default_steps_for_project(p)
        ELSE BasePass(ConfiguredPass(configured.list, EnabledSet(p)), EnabledSet(p))

----------------------------------------------------------------------------
(* PersonSourceResolver *)

_result_id_for_step(p, step) == IF step \in StepNames THEN p.result[step] ELSE NoId

\* reversed(steps[:idx]) as a sequence
ReversedPrefix(steps, idx) == [k \in 1..(idx - 1) |-> steps[idx - k]]

RECURSIVE FirstResult(_, _, _)
\* the backward loop of _find_upstream_result_id over `prevs`
FirstResult(p, prevs, input_type) ==
    IF prevs = <<>> THEN NoId
    ELSE IF _STEP_OUTPUT_TYPE[Head(prevs)] # input_type
         THEN FirstResult(p, Tail(prevs), input_type)
         ELSE IF _result_id_for_step(p, Head(prevs)) # NoId
              THEN _result_id_for_step(p, Head(prevs))
              ELSE FirstResult(p, Tail(prevs), input_type)

_find_upstream_result_id(p, steps, step) ==
    IF step \notin StepNames \/ step \notin Range(steps) THEN NoId
    ELSE FirstResult(p, ReversedPrefix(steps, IndexOf(steps, step)), _STEP_PERSON_INPUT_TYPE[step])

_has_upstream_step(steps, step) ==
    IF step \notin StepNames \/ step \notin Range(steps) THEN FALSE
    ELSE \E k \in 1..(IndexOf(steps, step) - 1) :
            _STEP_OUTPUT_TYPE[steps[k]] = _STEP_PERSON_INPUT_TYPE[step]

\* str.strip().lower() on the person-source texts a request can carry
StripLower(v) ==
    CASE v = "UPSTREAM" -> "upstream"
      [] v = " model_image " -> "model_image"
      [] v = "Try_On_Result" -> "try_on_result"
      [] v = "  " -> ""
      [] OTHER -> v

\* _normalize_person_source: [ok, value]; ok = FALSE is the HTTP 400
_normalize_person_source(value) ==
    IF value = None THEN [ok |-> TRUE, value |-> None]
    ELSE IF StripLower(value) = "" THEN [ok |-> TRUE, value |-> None]
    ELSE IF StripLower(value) \in {"upstream", "model_image"}
         THEN [ok |-> TRUE, value |-> StripLower(value)]
         ELSE [ok |-> FALSE, value |-> None]

\* the mode selection of _resolve_person_source_id
PersonSourceMode(p, step) ==
    IF step = "background"
    THEN IF StripLower(IF p.background_person_source \in {None, ""}
                       THEN "try_on_result" ELSE p.background_person_source) = "model_image"
         THEN "model_image" ELSE "upstream"
    ELSE IF step = "try_on" THEN _normalize_person_source(p.try_on_person_source).value
    ELSE IF step = "video" THEN _normalize_person_source(p.video_person_source).value
    ELSE None

\* `a or b` on ids
OrId(a, b) == IF a # NoId THEN a ELSE b

\* mutant: the model_image branch is missing, every mode prefers upstream
ResolveAlwaysPrefersUpstream(mode, upstream_id, has_upstream, model_image_id) ==
    OrId(upstream_id, model_image_id)

\* the three returns of _resolve_person_source_id
ResolveByMode(mode, upstream_id, has_upstream, model_image_id) ==
    IF mode = "model_image" THEN model_image_id
    ELSE IF mode = "upstream" THEN (IF has_upstream THEN upstream_id ELSE model_image_id)
    ELSE OrId(upstream_id, model_image_id)

_resolve_person_source_id(p, steps, step) ==
    ResolveByMode(PersonSourceMode(p, step),
                  _find_upstream_result_id(p, steps, step),
                  _has_upstream_step(steps, step),
                  p.model_image_id)

----------------------------------------------------------------------------
(* State *)

\* a Project row as create_project inserts it, with the given configuration
MkProject(enable, ws, tps, bps, vps, mi, ci, bi, res) ==
    [enable |-> enable,
     workflow_steps |-> ws,
     try_on_person_source |-> tps,
     background_person_source |-> bps,
     video_person_source |-> vps,
     model_image_id |-> mi,
     clothing_image_id |-> ci,
     background_image_id |-> bi,
     result |-> res,
     status |-> "draft",
     pipeline_active |-> FALSE,
     pipeline_cancel_requested |-> FALSE,
     pipeline_chain |-> TRUE,
     pipeline_start_step |-> None,
     pipeline_current_step |-> None,
     pipeline_last_error |-> None]

NoResults == [s \in StepNames |-> NoId]

OldResult == [s \in StepNames |->
                 IF s = "try_on" THEN OldTryOnResultId
                 ELSE IF s = "background" THEN OldBackgroundResultId
                 ELSE OldVideoResultId]

\* result columns: each either NULL or the artifact of an earlier job
ResultChoices == {[s \in StepNames |-> IF s \in S THEN OldResult[s] ELSE NoId] : S \in SUBSET StepNames}

\* the locals of a loop that start_pipeline has just scheduled
ScheduledRun ==
    [pc |-> "scheduled", steps |-> <<>>, start |-> None, chain |-> TRUE,
     run_steps |-> <<>>, i |-> 0, task |-> 0, outcome |-> None, seen |-> [loaded |-> FALSE]]

\* what a handler recorded on a Task: <<status, result_url, error_message>>
NoRecord == <<None, None, None>>

NoProbe == [op |-> "none", step |-> None, steps |-> <<>>, again |-> <<>>, id |-> NoId, code |-> 0,
            payload |-> <<>>, poll |-> NoRecord, hook |-> NoRecord, norm |-> <<>>,
            flag |-> FALSE]

RestInit ==
    /\ tasks = <<>>
    /\ runs = <<>>
    /\ startLimit = 0
    /\ nextAsset = FirstNewAssetId
    /\ remote = {}
    /\ probe = NoProbe

----------------------------------------------------------------------------
(* stepOrder as a function of the stored configuration *)

StoredValues ==
    {StoredNull, StoredEmpty, StoredInvalid, StoredNonList}
    \cup {JsonDumps(l) : l \in SeqsUpTo(StepNames \cup {"other"}, MaxOrderLen)}

InitOrder ==
    /\ project \in {MkProject(e, ws, None, "try_on_result", None, NoId, NoId, NoId, NoResults) :
                        e \in [StepNames -> BOOLEAN], ws \in StoredValues}
    /\ RestInit

EvalStepsForProject ==
    /\ probe.op = "none"
    /\ probe' = [NoProbe EXCEPT !.op = "steps", !.steps = _steps_for_project(project)]
    /\ UNCHANGED <<project, tasks, runs, nextAsset, remote, startLimit>>

EvalStepsAgain ==
    /\ probe.op = "steps"
    /\ probe' = [probe EXCEPT !.op = "steps2", !.again = _steps_for_project(project)]
    /\ UNCHANGED <<project, tasks, runs, nextAsset, remote, startLimit>>

NextOrder == EvalStepsForProject \/ EvalStepsAgain

SpecOrder == InitOrder /\ [][NextOrder]_vars

StoredList == IF project.workflow_steps.kind = "list" THEN project.workflow_steps.items ELSE <<>>

NoDuplicates(seq) == \A i, j \in 1..Len(seq) : i # j => seq[i] # seq[j]

Before(seq, a, b) == IndexOf(seq, a) < IndexOf(seq, b)

\* C7: for every stored configuration, stepOrder is a duplicate-free list of
\* exactly the enabled steps; steps present in the stored order keep the
\* relative order of their first occurrences; enabled steps missing from the
\* stored order follow, in canonical order; a second call returns the same list.
StepOrderIsEnabledPermutation ==
    probe.op \in {"steps", "steps2"} =>
        LET out == probe.steps
            cfg == StoredList
            en == EnabledSet(project)
        IN  /\ NoDuplicates(out)
            /\ Range(out) = en
            /\ \A a, b \in en :
                  a # b =>
                    /\ (a \in Range(cfg) /\ b \in Range(cfg)) =>
                           (Before(out, a, b) <=> Before(cfg, a, b))
                    /\ (a \in Range(cfg) /\ b \notin Range(cfg)) => Before(out, a, b)
                    /\ (a \notin Range(cfg) /\ b \notin Range(cfg)) =>
                           (Before(out, a, b) <=> Before(_BASE_STEP_ORDER, a, b))
            /\ probe.op = "steps2" => probe.again = out

\* a stored order with a duplicate, an unknown name and a disabled name, and
\* an enabled step it does not mention
StepOrderWitness ==
    /\ probe.op = "steps2"
    /\ project.workflow_steps = JsonDumps(<<"video", "other", "video">>)
    /\ EnabledSet(project) = {"try_on", "video"}
    /\ probe.steps = <<"video", "try_on">>

----------------------------------------------------------------------------
(* resolve as a function of the configuration, the results and the step *)

TryOnSourceValues == {None, "upstream", "model_image"}
BackgroundSourceValues == {"try_on_result", "model_image"}

InitResolve ==
    /\ project \in {MkProject(e, JsonDumps(l), tps, bps, vps, mi, NoId, NoId, res) :
                        e \in [StepNames -> BOOLEAN],
                        l \in SeqsUpTo(StepNames, MaxOrderLen),
                        tps \in TryOnSourceValues,
                        bps \in BackgroundSourceValues,
                        vps \in TryOnSourceValues,
                        mi \in {NoId, ModelImageId},
                        res \in ResultChoices}
    /\ RestInit

EvalResolve(step) ==
    /\ probe.op = "none"
    /\ probe' = [NoProbe EXCEPT !.op = "resolve", !.step = step,
                                !.steps = _steps_for_project(project),
                                !.id = _resolve_person_source_id(project, _steps_for_project(project), step)]
    /\ UNCHANGED <<project, tasks, runs, nextAsset, remote, startLimit>>

NextResolve == \E step \in StepNames : EvalResolve(step)

SpecResolve == InitResolve /\ [][NextResolve]_vars

\* the steps before `step` whose output type is the step's person-input type
MatchingBefore(steps, step) ==
    IF step \notin Range(steps) THEN {}
    ELSE {k \in 1..(IndexOf(steps, step) - 1) : _STEP_OUTPUT_TYPE[steps[k]] = _STEP_PERSON_INPUT_TYPE[step]}

\* the artifact of the nearest such step that has one
UpstreamArtifact(p, steps, step) ==
    LET have == {k \in MatchingBefore(steps, step) : p.result[steps[k]] # NoId}
    IN  IF have = {} THEN NoId
        ELSE p.result[steps[CHOOSE k \in have : \A m \in have : m <= k]]

\* C9: in upstream mode resolve returns the upstream artifact if one exists
\* and otherwise the base asset id; in every mode it returns null only when
\* neither an upstream artifact nor a base asset exists.
UpstreamFallsBackToBaseAsset ==
    probe.op = "resolve" =>
        LET up == UpstreamArtifact(project, probe.steps, probe.step)
        IN  /\ PersonSourceMode(project, probe.step) = "upstream" =>
                  probe.id = (IF up # NoId THEN up ELSE project.model_image_id)
            /\ probe.id = NoId => (up = NoId /\ project.model_image_id = NoId)

\* C10: in model_image mode resolve returns model_image_id, whatever the
\* step, the order and the results, also when model_image_id is null.
BaseAssetModeReturnsModelImage ==
    (probe.op = "resolve" /\ PersonSourceMode(project, probe.step) = "model_image") =>
        probe.id = project.model_image_id

\* background after try_on, try_on has a result, background in model_image mode
BaseAssetModeWitness ==
    /\ probe.op = "resolve"
    /\ probe.step = "background"
    /\ probe.steps = <<"try_on", "background">>
    /\ project.background_person_source = "model_image"
    /\ project.result["try_on"] = OldTryOnResultId
    /\ probe.id = ModelImageId

\* the nearest step before `step` whose output type is the step's person-input type
NearestMatching(steps, step) ==
    CHOOSE k \in MatchingBefore(steps, step) : \A m \in MatchingBefore(steps, step) : m <= k

\* C11: outside model_image mode, when a type-matching step precedes the
\* step, resolve looks at the nearest one only: it returns that step's
\* artifact if it has one, and otherwise the base asset or null, never the
\* artifact of an earlier step.
ResolverUsesNearestMatchingStep ==
    (/\ probe.op = "resolve"
     /\ PersonSourceMode(project, probe.step) # "model_image"
     /\ MatchingBefore(probe.steps, probe.step) # {}) =>
        LET near == project.result[probe.steps[NearestMatching(probe.steps, probe.step)]]
        IN  IF near # NoId THEN probe.id = near
            ELSE probe.id \in {project.model_image_id, NoId}

----------------------------------------------------------------------------
(* Jobs *)

Runs == 1..Len(runs)

TerminalStatuses == {"success", "failed"}

\* a Task row as TryOnService/BackgroundService.create_task inserts it
NewTask(type, r, idx, person) ==
    [type |-> type, status |-> "pending", run |-> r, idx |-> idx, person |-> person,
     ext |-> None, url |-> None, result |-> NoId, error |-> None]

TaskIds == 1..Len(tasks)

TasksOfRun(r) == {t \in TaskIds : tasks[t].run = r}

\* mutant: the count of Queued/Running tasks is not consulted
HasActiveTasksNever(ts) == FALSE

\* _ensure_no_active_tasks: TRUE when the count of Queued/Running tasks is positive
HasActiveTasks(ts) == \E t \in 1..Len(ts) : ts[t].status \in {"queued", "running"}

----------------------------------------------------------------------------
(* start_pipeline and cancel_pipeline (request path) *)

StartStepChoices == StepNames \cup {None}

\* `start_step or (steps[0] if steps else None)`
StartStepOrFirst(start_step, steps) ==
    IF start_step # None THEN start_step
    ELSE IF steps # <<>> THEN steps[1] ELSE None

\* mutant: the background image is not required
MissingInputsSkipsBackgroundImage(p, steps, step) ==
    IF step = "try_on"
    THEN IF _resolve_person_source_id(p, steps, "try_on") = NoId \/ p.clothing_image_id = NoId
         THEN "Missing required assets: model_image (or upstream result) and clothing_image"
         ELSE None
    ELSE IF step = "background"
    THEN IF _resolve_person_source_id(p, steps, "background") = NoId
         THEN "Missing required asset for background: person image (try-on result or model image)"
         ELSE None
    ELSE None

\* the missing-input test made for try_on and background
MissingInputs(p, steps, step) ==
    IF step = "try_on"
    THEN IF _resolve_person_source_id(p, steps, "try_on") = NoId \/ p.clothing_image_id = NoId
         THEN "Missing required assets: model_image (or upstream result) and clothing_image"
         ELSE None
    ELSE IF step = "background"
    THEN IF _resolve_person_source_id(p, steps, "background") = NoId
         THEN "Missing required asset for background: person image (try-on result or model image)"
         ELSE IF p.background_image_id = NoId
         THEN "Missing required asset for background: background image"
         ELSE None
    ELSE None

\* the HTTP status start_pipeline answers with
StartCode(p, ts, start_step) ==
    LET steps == _steps_for_project(p)
        step == StartStepOrFirst(start_step, steps)
    IN  IF HasActiveTasks(ts) THEN 409
        ELSE IF step = None THEN 400
        ELSE IF step \notin Range(steps) THEN 400
        ELSE IF step = "video" THEN 400
        ELSE IF MissingInputs(p, steps, step) # None THEN 400
        ELSE 200

\* mutant: the cancel flag of an earlier request is left as it is
StartUpdateKeepsCancel(p, step, chain) ==
    [p EXCEPT !.pipeline_active = TRUE,
              !.pipeline_chain = chain,
              !.pipeline_start_step = step,
              !.pipeline_current_step = None,
              !.pipeline_last_error = None,
              !.status = "processing"]

\* lines 612-620: the fields an accepted start writes
StartUpdate(p, step, chain) ==
    [p EXCEPT !.pipeline_active = TRUE,
              !.pipeline_cancel_requested = FALSE,
              !.pipeline_chain = chain,
              !.pipeline_start_step = step,
              !.pipeline_current_step = None,
              !.pipeline_last_error = None,
              !.status = "processing"]

\* `probe` keeps the request, the HTTP status of the latest call and the
\* cancel flag the call found on the project
start_pipeline(start_step, chain) ==
    /\ startLimit > 0
    /\ LET code == StartCode(project, tasks, start_step)
           step == StartStepOrFirst(start_step, _steps_for_project(project))
       IN  /\ IF code = 200
              THEN /\ project' = StartUpdate(project, step, chain)
                   /\ runs' = Append(runs, ScheduledRun)
                   /\ startLimit' = startLimit - 1
              ELSE UNCHANGED <<project, runs, startLimit>>
           /\ probe' = [NoProbe EXCEPT !.op = "start", !.step = start_step, !.code = code,
                                        !.flag = project.pipeline_cancel_requested]
    /\ UNCHANGED <<tasks, nextAsset, remote>>

\* mutant: cancel also stops the run at once
CancelUpdateStopsRun(p) ==
    [p EXCEPT !.pipeline_cancel_requested = TRUE, !.pipeline_active = FALSE,
              !.pipeline_current_step = None, !.status = "draft"]

CancelUpdate(p) == [p EXCEPT !.pipeline_cancel_requested = TRUE]

cancel_pipeline ==
    /\ project' = CancelUpdate(project)
    /\ UNCHANGED <<tasks, runs, nextAsset, remote, startLimit, probe>>

----------------------------------------------------------------------------
(* _run_project_pipeline (background loop r) *)

NoSnap == [loaded |-> FALSE]

\* mutant: `if not project.pipeline_chain` is missing
RunStepsIgnoresChain(steps, start, chain) == SubSeq(steps, IndexOf(steps, start), Len(steps))

\* steps[start_idx:] when chaining, else [start]
RunSteps(steps, start, chain) ==
    IF chain THEN SubSeq(steps, IndexOf(steps, start), Len(steps)) ELSE <<start>>

\* mutant: the loop stops without clearing pipeline_active
StopUpdateLeavesActive(p, status, error) ==
    [p EXCEPT !.pipeline_current_step = None,
              !.pipeline_last_error = IF error = None THEN @ ELSE error,
              !.status = status]

\* the persisted fields the loop writes when it stops
StopUpdate(p, status, error) ==
    [p EXCEPT !.pipeline_active = FALSE,
              !.pipeline_current_step = None,
              !.pipeline_last_error = IF error = None THEN @ ELSE error,
              !.status = status]

Finished(run, outcome) == [run EXCEPT !.pc = "done", !.outcome = outcome, !.task = 0, !.seen = NoSnap]

\* lines 451-472: load the project, compute steps and the run list
LoopInit(r) ==
    /\ runs[r].pc = "scheduled"
    /\ LET steps == _steps_for_project(project)
           start == StartStepOrFirst(project.pipeline_start_step, steps)
       IN  IF start = None \/ start \notin Range(steps)
           THEN /\ project' = StopUpdate(project, "failed", "No enabled workflow steps to run.")
                /\ runs' = [runs EXCEPT ![r] = Finished(@, "nosteps")]
           ELSE /\ runs' = [runs EXCEPT ![r].pc = "boundary", ![r].steps = steps,
                                        ![r].start = start, ![r].chain = project.pipeline_chain,
                                        ![r].run_steps = RunSteps(steps, start, project.pipeline_chain),
                                        ![r].i = 1, ![r].seen = project]
                /\ UNCHANGED project
    /\ UNCHANGED <<tasks, nextAsset, remote, startLimit, probe>>

\* mutant: the cancel test is missing from the loop
CancelNeverSeen(p) == FALSE

CancelSeen(p) == p.pipeline_cancel_requested

\* mutant: the select runs without populate_existing, so the session hands
\* back the object it already holds
LoadProjectFromIdentityMap(row, held) == held

\* load_project: the select refreshes the object the session holds from the row
load_project(row, held) == row

\* lines 476-490: reload, stop on cancel, else mark the current step
LoopBoundary(r) ==
    /\ runs[r].pc = "boundary"
    /\ LET p == load_project(project, runs[r].seen)
       IN  IF CancelSeen(p)
           THEN /\ project' = StopUpdate(project, "draft", None)
                /\ runs' = [runs EXCEPT ![r] = Finished(@, "cancelled")]
           ELSE /\ project' = [project EXCEPT !.pipeline_current_step = runs[r].run_steps[runs[r].i],
                                              !.status = "processing"]
                /\ runs' = [runs EXCEPT ![r].pc = "create",
                                        ![r].seen = [p EXCEPT !.pipeline_current_step = runs[r].run_steps[runs[r].i],
                                                              !.status = "processing"]]
    /\ UNCHANGED <<tasks, nextAsset, remote, startLimit, probe>>

\* mutant: the video branch creates a Job like the other two
HasExecutorForEveryStep(step) == TRUE

\* the branches of the loop body that create a Task and run it
HasExecutor(step) == step \in {"try_on", "background"}

\* lines 492-533: resolve the inputs from the loaded project and create the Task
LoopCreate(r) ==
    /\ runs[r].pc = "create"
    /\ Len(tasks) < MaxTasks
    /\ LET step == runs[r].run_steps[runs[r].i]
           p == runs[r].seen
           missing == MissingInputs(p, runs[r].steps, step)
       IN  IF ~HasExecutor(step)
           THEN /\ project' = StopUpdate(project, "completed",
                        "Video module is not integrated yet. Pipeline stopped after previous step.")
                /\ runs' = [runs EXCEPT ![r] = Finished(@, "notintegrated")]
                /\ UNCHANGED tasks
           ELSE IF missing # None
           THEN /\ project' = StopUpdate(project, "failed", missing)
                /\ runs' = [runs EXCEPT ![r] = Finished(@, "failed")]
                /\ UNCHANGED tasks
           ELSE /\ tasks' = Append(tasks, NewTask(step, r, runs[r].i,
                                       _resolve_person_source_id(p, runs[r].steps, step)))
                /\ runs' = [runs EXCEPT ![r].pc = "sp_load", ![r].task = Len(tasks) + 1]
                /\ UNCHANGED project
    /\ UNCHANGED <<nextAsset, remote, startLimit, probe>>

\* submit_and_poll_task has returned: next iteration, or the code after the loop
Returned(run) ==
    [run EXCEPT !.pc = IF run.i < Len(run.run_steps) THEN "boundary" ELSE "finish",
                !.i = run.i + 1, !.task = 0]

\* lines 535-541
LoopFinish(r) ==
    /\ runs[r].pc = "finish"
    /\ project' = StopUpdate(project, "completed", None)
    /\ runs' = [runs EXCEPT ![r] = Finished(@, "completed")]
    /\ UNCHANGED <<tasks, nextAsset, remote, startLimit, probe>>

----------------------------------------------------------------------------
(* submit_and_poll_task, awaited by loop r for its Task *)

\* lines 355-376: load the Task; return unless Pending; else Queued
SubmitLoad(r) ==
    /\ runs[r].pc = "sp_load"
    /\ LET t == runs[r].task
       IN  IF tasks[t].status # "pending"
           THEN /\ runs' = [runs EXCEPT ![r] = Returned(@)]
                /\ UNCHANGED tasks
           ELSE /\ tasks' = [tasks EXCEPT ![t].status = "queued"]
                /\ runs' = [runs EXCEPT ![r].pc = "sp_submit"]
    /\ UNCHANGED <<project, nextAsset, remote, startLimit, probe>>

SubmitOutcomes == {"accepted", "upload_null", "rejected", "exception"}

SubmitError(outcome) ==
    CASE outcome = "upload_null" -> "Failed to upload images to RunningHub"
      [] outcome = "rejected" -> "Task creation failed"
      [] outcome = "exception" -> "exception text"
      [] OTHER -> None

\* the remote calls made up to the point where the outcome is known
SubmitCalls(t, outcome) ==
    CASE outcome = "accepted" -> {[op |-> "upload", task |-> t], [op |-> "submit", task |-> t]}
      [] outcome = "rejected" -> {[op |-> "upload", task |-> t], [op |-> "submit", task |-> t]}
      [] outcome = "upload_null" -> {[op |-> "upload", task |-> t]}
      [] OTHER -> {}

\* lines 378-522: upload the inputs and submit; Running on success, Failed otherwise
SubmitRemote(r, outcome) ==
    /\ runs[r].pc = "sp_submit"
    /\ LET t == runs[r].task
       IN  /\ remote' = remote \cup SubmitCalls(t, outcome)
           /\ IF outcome = "accepted"
              THEN /\ tasks' = [tasks EXCEPT ![t].status = "running", ![t].ext = "rh"]
                   /\ runs' = [runs EXCEPT ![r].pc = "sp_poll"]
              ELSE /\ tasks' = [tasks EXCEPT ![t].status = "failed", ![t].error = SubmitError(outcome)]
                   /\ runs' = [runs EXCEPT ![r] = Returned(@)]
    /\ UNCHANGED <<project, nextAsset, startLimit, probe>>

PollOutcomes == {"success_url", "success_no_url", "failed", "timeout", "exception"}

\* mutant: the TimeoutError handler does not set the status
PollStatusTimeoutUnset(outcome) ==
    IF outcome \in {"success_url", "success_no_url"} THEN "success"
    ELSE IF outcome = "timeout" THEN "running" ELSE "failed"

\* the Task status written for each way wait_for_completion ends
PollStatus(outcome) == IF outcome \in {"success_url", "success_no_url"} THEN "success" ELSE "failed"

PollError(outcome) ==
    CASE outcome = "failed" -> "Task failed"
      [] outcome = "timeout" -> "Timeout failed (1h)"
      [] outcome = "exception" -> "exception text"
      [] OTHER -> None

\* lines 524-616: wait for completion and record the result; the session
\* updates the columns it assigns a new value to, whatever the row holds
SubmitPoll(r, outcome) ==
    /\ runs[r].pc = "sp_poll"
    /\ LET t == runs[r].task
       IN  /\ remote' = remote \cup {[op |-> "poll", task |-> t]}
           /\ tasks' = [tasks EXCEPT ![t].status = PollStatus(outcome),
                                     ![t].error = IF PollError(outcome) # None THEN PollError(outcome) ELSE @,
                                     ![t].url = IF outcome = "success_url" THEN "u" ELSE @,
                                     ![t].result = IF outcome = "success_url" THEN nextAsset ELSE @]
           /\ IF outcome = "success_url"
              THEN /\ project' = [project EXCEPT !.result[tasks[t].type] = nextAsset]
                   /\ nextAsset' = nextAsset + 1
              ELSE UNCHANGED <<project, nextAsset>>
           /\ runs' = [runs EXCEPT ![r] = Returned(@)]
    /\ UNCHANGED <<startLimit, probe>>

----------------------------------------------------------------------------
(* The pipeline specification *)

RECURSIVE Perms(_)
\* the orders of a set of steps
Perms(S) == IF S = {} THEN {<<>>} ELSE UNION {{<<x>> \o q : q \in Perms(S \ {x})} : x \in S}

\* background comes before try_on in the order
BackgroundFeedsTryOn(l) ==
    /\ "try_on" \in Range(l) /\ "background" \in Range(l)
    /\ IndexOf(l, "background") < IndexOf(l, "try_on")

\* the configurations with the order l; a setting that no step of l reads
\* keeps the value create_project gives it
ConfigsOf(l) ==
    {MkProject([s \in StepNames |-> s \in Range(l)], JsonDumps(l), tps, bps, None,
               ModelImageId, ClothingImageId, bi, res) :
        tps \in IF BackgroundFeedsTryOn(l) THEN {None, "upstream"} ELSE {None},
        bps \in IF "background" \in Range(l) THEN BackgroundSourceValues
                ELSE IF "try_on" \in Range(l) THEN {"try_on_result"} ELSE {"model_image"},
        bi \in IF "background" \in Range(l) THEN {NoId, BackgroundImageId} ELSE {NoId},
        res \in {x \in ResultChoices : x["video"] = NoId /\ x["background"] = NoId}}

Orders == UNION {Perms(en) : en \in SUBSET StepNames}

\* projects as create_project/update_project leave them, before any run or
\* after an earlier try-on
InitPipeline ==
    /\ project \in UNION {ConfigsOf(l) : l \in Orders}
    /\ tasks = <<>>
    /\ runs = <<>>
    /\ nextAsset = FirstNewAssetId
    /\ remote = {}
    /\ probe = NoProbe

Init == InitPipeline /\ startLimit = MaxRuns

Next ==
    \/ \E start_step \in StartStepChoices, chain \in BOOLEAN : start_pipeline(start_step, chain)
    \/ cancel_pipeline
    \/ \E r \in Runs : LoopInit(r)
    \/ \E r \in Runs : LoopBoundary(r)
    \/ \E r \in Runs : LoopCreate(r)
    \/ \E r \in Runs : LoopFinish(r)
    \/ \E r \in Runs : SubmitLoad(r)
    \/ \E r \in Runs, outcome \in SubmitOutcomes : SubmitRemote(r, outcome)
    \/ \E r \in Runs, outcome \in PollOutcomes : SubmitPoll(r, outcome)

Spec == Init /\ [][Next]_vars

\* one step of loop r, whichever it is
LoopStep(r) ==
    /\ r \in Runs
    /\ \/ LoopInit(r) \/ LoopBoundary(r) \/ LoopCreate(r) \/ LoopFinish(r) \/ SubmitLoad(r)
       \/ \E outcome \in SubmitOutcomes : SubmitRemote(r, outcome)
       \/ \E outcome \in PollOutcomes : SubmitPoll(r, outcome)

\* the event loop runs a scheduled background task to its end, and every
\* remote call returns or raises (the client sets httpx timeouts)
Fairness == \A r \in 1..MaxRuns : WF_vars(LoopStep(r))

SpecLive == Init /\ [][Next]_vars /\ Fairness

\* two starts of one project, to examine overlapping loops
InitRace ==
    /\ project \in {c \in ConfigsOf(<<"try_on", "background">>) :
                        c.background_person_source = "try_on_result" /\ c.result = NoResults}
                   \cup ConfigsOf(<<>>)
    /\ tasks = <<>>
    /\ runs = <<>>
    /\ nextAsset = FirstNewAssetId
    /\ remote = {}
    /\ probe = NoProbe
    /\ startLimit = MaxRaceRuns

SpecRace == InitRace /\ [][Next]_vars

----------------------------------------------------------------------------
(* Properties of the pipeline loop *)

ActiveRuns == {r \in Runs : runs[r].pc # "done"}

LaterTasks(t) == {u \in TasksOfRun(tasks[t].run) : tasks[u].idx > tasks[t].idx}

\* C1: when the Job of a step ends Failed (and no cancel was requested), no
\* Job is created for a later step of the run, and the run ends Failed with
\* pipeline_last_error set, never Completed.
FailedJobAbortsPipeline ==
    \A t \in TaskIds :
        (tasks[t].status = "failed" /\ ~project.pipeline_cancel_requested) =>
            /\ LaterTasks(t) = {}
            /\ runs[tasks[t].run].pc = "done" =>
                  /\ runs[tasks[t].run].outcome = "failed"
                  /\ project.status = "failed"
                  /\ project.pipeline_last_error # None
                  /\ ~project.pipeline_active

\* the loop has reached a step boundary with the cancel flag set, and stops there
StopsAtBoundary(r) ==
    /\ r \in Runs
    /\ runs[r].pc = "boundary"
    /\ project.pipeline_cancel_requested
    /\ runs'[r].pc # "boundary"

CancelledRunsHaveNoLaterJob ==
    \A r \in Runs :
        runs[r].outcome = "cancelled" =>
            /\ runs[r].pc = "done"
            /\ \A t \in TasksOfRun(r) : tasks[t].idx < runs[r].i

\* C2: a loop that reaches the boundary before step k with cancelRequested
\* set ends there with status "draft", pipeline_active false and
\* pipeline_current_step null, and has no Job for step k or a later step.
CancelAtBoundaryEndsRunAsDraft ==
    /\ [][\A r \in 1..Len(runs) :
            StopsAtBoundary(r) =>
                /\ project'.status = "draft"
                /\ ~project'.pipeline_active
                /\ project'.pipeline_current_step = None
                /\ runs'[r].pc = "done" /\ runs'[r].outcome = "cancelled"
                /\ tasks' = tasks]_vars
    /\ []CancelledRunsHaveNoLaterJob

\* cancelled before the second step, after a first step that succeeded
CancelAtBoundaryWitness ==
    \E r \in Runs :
        /\ runs[r].outcome = "cancelled"
        /\ runs[r].i = 2
        /\ project.status = "draft"
        /\ \E t \in TasksOfRun(r) : tasks[t].idx = 1 /\ tasks[t].status = "success"

CancelFlagRises == ~project.pipeline_cancel_requested /\ project'.pipeline_cancel_requested

FinishedRunsHaveTerminalJobs ==
    \A r \in Runs : runs[r].pc = "done" =>
        \A t \in TasksOfRun(r) : tasks[t].status \in TerminalStatuses

\* C3: a step in which the cancel flag is raised changes nothing else: the
\* other project fields, all Jobs and all loops are as before and no remote
\* call is made; no remote cancel is ever issued; and every Job of a finished
\* run, cancelled or not, is in a terminal status.
CancelOnlySetsTheFlag ==
    /\ [][CancelFlagRises =>
            /\ project' = [project EXCEPT !.pipeline_cancel_requested = TRUE]
            /\ UNCHANGED <<tasks, runs, remote, nextAsset>>]_vars
    /\ [](\A c \in remote : c.op # "cancel")
    /\ []FinishedRunsHaveTerminalJobs

\* the flag is set while a Job is Running, and the project still shows the
\* step in progress
CancelInFlightWitness ==
    /\ project.pipeline_cancel_requested
    /\ project.pipeline_active
    /\ project.status = "processing"
    /\ project.pipeline_current_step = "try_on"
    /\ \E r \in Runs : runs[r].pc = "sp_poll" /\ tasks[runs[r].task].status = "running"

\* Job a is the Job of the step before b in b's run, and ended Success with an artifact
ProducedUpstreamOf(a, b) ==
    /\ tasks[a].run = b.run
    /\ tasks[a].idx = b.idx - 1
    /\ tasks[a].status = "success"
    /\ tasks[a].result # NoId

\* no Job of another run has stored a newer artifact for the step of Job a
NewestArtifactOfItsStep(a) ==
    \A u \in 1..Len(tasks) :
        (tasks[u].type = tasks[a].type /\ tasks[u].run # tasks[a].run) =>
            tasks[u].result < tasks[a].result

InputMissing(p, steps, step) ==
    \/ step = "try_on" /\ (_resolve_person_source_id(p, steps, step) = NoId \/ p.clothing_image_id = NoId)
    \/ step = "background" /\ (_resolve_person_source_id(p, steps, step) = NoId \/ p.background_image_id = NoId)

\* loop r is about to create the Job of an executable step whose input is missing
ReachesStepWithMissingInput(r) ==
    /\ r \in Runs
    /\ runs[r].pc = "create"
    /\ runs'[r] # runs[r]
    /\ InputMissing(runs[r].seen, runs[r].steps, runs[r].run_steps[runs[r].i])

FailedRunsHaveNoLaterJob ==
    \A r \in Runs :
        runs[r].outcome = "failed" =>
            /\ runs[r].pc = "done"
            /\ \A t \in TasksOfRun(r) : tasks[t].idx < runs[r].i
            /\ \A c \in remote : c.task \in TasksOfRun(r) => tasks[c.task].idx < runs[r].i

\* C13: a loop that reaches a step whose required input is null creates no
\* Job and makes no remote call, ends with pipeline_last_error set,
\* pipeline_active false, pipeline_current_step null and status "failed",
\* and never has a Job or a remote call for that step or a later one.
MissingInputAbortsPipeline ==
    /\ [][\A r \in 1..Len(runs) :
            ReachesStepWithMissingInput(r) =>
                /\ tasks' = tasks
                /\ remote' = remote
                /\ project'.pipeline_last_error # None
                /\ ~project'.pipeline_active
                /\ project'.pipeline_current_step = None
                /\ project'.status = "failed"
                /\ runs'[r].pc = "done" /\ runs'[r].outcome = "failed"]_vars
    /\ []FailedRunsHaveNoLaterJob

\* [try_on, background] without a background image: the try_on Job succeeded,
\* the loop stopped at background
MissingInputWitness ==
    \E r \in Runs :
        /\ runs[r].outcome = "failed"
        /\ runs[r].run_steps = <<"try_on", "background">>
        /\ runs[r].i = 2
        /\ project.background_image_id = NoId
        /\ project.status = "failed"
        /\ project.pipeline_last_error = "Missing required asset for background: background image"
        /\ \E t \in TasksOfRun(r) : tasks[t].status = "success"
        /\ \A t \in TasksOfRun(r) : tasks[t].type = "try_on"

\* loop r is about to execute the video step
ReachesVideoStep(r) ==
    /\ r \in Runs
    /\ runs[r].pc = "create"
    /\ runs'[r] # runs[r]
    /\ runs[r].run_steps[runs[r].i] = "video"

NotIntegratedRunsHaveNoLaterJob ==
    \A r \in Runs :
        runs[r].outcome = "notintegrated" =>
            /\ runs[r].pc = "done"
            /\ \A t \in TasksOfRun(r) : tasks[t].idx < runs[r].i /\ tasks[t].type # "video"

\* C14: a loop that reaches the video step creates no Job, ends with
\* pipeline_last_error set, pipeline_active false, pipeline_current_step
\* null and status "completed", and never has a Job for video or a later step.
VideoStepStopsRunAsCompleted ==
    /\ [][\A r \in 1..Len(runs) :
            ReachesVideoStep(r) =>
                /\ tasks' = tasks
                /\ remote' = remote
                /\ project'.pipeline_last_error # None
                /\ ~project'.pipeline_active
                /\ project'.pipeline_current_step = None
                /\ project'.status = "completed"
                /\ runs'[r].pc = "done" /\ runs'[r].outcome = "notintegrated"]_vars
    /\ []NotIntegratedRunsHaveNoLaterJob

\* [try_on, video, background]: the run stopped at video after a try_on
\* Job, with no background Job
VideoStepWitness ==
    \E r \in Runs :
        /\ runs[r].outcome = "notintegrated"
        /\ runs[r].run_steps = <<"try_on", "video", "background">>
        /\ runs[r].i = 2
        /\ project.status = "completed"
        /\ ~project.pipeline_active
        /\ project.pipeline_last_error # None
        /\ \E t \in TasksOfRun(r) : tasks[t].status = "success"
        /\ \A t \in TasksOfRun(r) : tasks[t].type = "try_on"

\* a start_pipeline call is made in this step (a repeated identical
\* rejection changes nothing and is not a step)
IsStartCall == probe' # probe \/ Len(runs') # Len(runs)

\* one of the four reasons to reject the request, read off the state before the call
RejectCause(p, ts, start_step) ==
    LET steps == _steps_for_project(p)
    IN  \/ EnabledSet(p) = {}
        \/ start_step # None /\ start_step \notin Range(steps)
        \/ \E t \in 1..Len(ts) : ts[t].status \in {"queued", "running"}
        \/ steps # <<>> /\ InputMissing(p, steps, StartStepOrFirst(start_step, steps))

\* C15: a start_pipeline call made when no step is enabled, when start_step
\* is not in stepOrder, when a Job is Queued or Running, or when an input of
\* the start step is missing answers 400 or 409, schedules no loop and
\* leaves the project row and the Jobs as they were.
RejectedStartChangesNothing ==
    [][(IsStartCall /\ RejectCause(project, tasks, probe'.step)) =>
          /\ probe'.op = "start"
          /\ probe'.code \in {400, 409}
          /\ runs' = runs
          /\ project' = project
          /\ tasks' = tasks
          /\ remote' = remote]_vars

\* a second start is refused with 409 while the first run has a Running Job
RejectedStartWitness ==
    /\ probe.op = "start" /\ probe.code = 409
    /\ Len(runs) = 1
    /\ project.pipeline_active
    /\ project.pipeline_current_step = "try_on"
    /\ \E t \in TaskIds : tasks[t].status = "running"

\* C17: a Job's status changes only from "pending" to "queued", from
\* "queued" to "running", and from "running" to "success" or "failed".
JobStatusFollowsChain ==
    [][\A t \in 1..Len(tasks) :
          tasks'[t].status # tasks[t].status =>
              \/ tasks[t].status = "pending" /\ tasks'[t].status = "queued"
              \/ tasks[t].status = "queued" /\ tasks'[t].status = "running"
              \/ tasks[t].status = "running" /\ tasks'[t].status \in TerminalStatuses]_vars

\* C20: every Job in status "success" has a result artifact, and the
\* project's result id of its step is that artifact unless a later Job of
\* the same step has succeeded.
SuccessJobHasArtifact ==
    \A t \in TaskIds :
        tasks[t].status = "success" =>
            /\ tasks[t].result # NoId
            /\ (\A u \in TaskIds : (u > t /\ tasks[u].type = tasks[t].type) => tasks[u].status # "success")
                   => project.result[tasks[t].type] = tasks[t].result

\* C4: at most one loop of the project is unfinished at any time (a
\* start_pipeline call made while a started run has not finished is rejected).
OneActiveRunPerProject == Cardinality(ActiveRuns) <= 1

\* run_steps is the suffix of steps that begins at start
\* a loop is inside the body of a step: creating its Job or running it
StepExecuting(r) == runs[r].pc \in {"create", "sp_load", "sp_submit", "sp_poll"}

\* C33: whenever pipeline_current_step is null and no loop is executing a
\* step, pipeline_active is false; this covers the time between a
\* successful start and the loop's first step, and the time after the loop
\* has ended.
NoCurrentStepMeansInactive ==
    (project.pipeline_current_step = None /\ \A r \in Runs : ~StepExecuting(r)) =>
        ~project.pipeline_active

\* C34: pipeline_cancel_requested rises from false to true only while
\* pipeline_active is true.
CancelFlagRisesOnlyWhileActive ==
    [][CancelFlagRises => project.pipeline_active]_vars

\* loop r ends in this step
LoopEnds(r) == r \in Runs /\ runs[r].pc # "done" /\ runs'[r].pc = "done"

\* every step of the run list of r has a Job, and each ended Success
EveryStepSucceeded(r) ==
    /\ \A k \in 1..Len(runs[r].run_steps) : \E t \in TasksOfRun(r) : tasks[t].idx = k
    /\ \A t \in TasksOfRun(r) : tasks[t].status = "success"

\* C35: every started run returns to Idle. Under the fairness of SpecLive
\* each scheduled loop ends; the step in which it ends leaves pipeline_active
\* false, pipeline_current_step null and the status draft, completed or
\* failed; and when every step of its run list succeeded and no cancel
\* stopped it, the status it leaves is completed.
EveryRunReturnsToIdle ==
    /\ \A r \in 1..MaxRuns : (r \in Runs) ~> (r \in Runs /\ runs[r].pc = "done")
    /\ [][\A r \in 1..Len(runs) :
            LoopEnds(r) =>
                /\ ~project'.pipeline_active
                /\ project'.pipeline_current_step = None
                /\ project'.status \in {"draft", "completed", "failed"}
                /\ (EveryStepSucceeded(r) /\ runs[r].run_steps # <<>> /\ runs'[r].outcome # "cancelled") =>
                        project'.status = "completed"]_vars
    /\ []((Runs # {} /\ \A r \in Runs : runs[r].pc = "done") =>
            /\ ~project.pipeline_active
            /\ project.pipeline_current_step = None
            /\ project.status \in {"draft", "completed", "failed"})

\* a chained run of two steps has ended after both Jobs succeeded
RunCompletedWitness ==
    \E r \in Runs :
        /\ runs[r].pc = "done" /\ runs[r].outcome = "completed"
        /\ Len(runs[r].run_steps) = 2
        /\ EveryStepSucceeded(r)
        /\ project.status = "completed" /\ ~project.pipeline_active

\* loop r passes the boundary before its first step
FirstBoundaryPassed(r) ==
    /\ r \in Runs
    /\ runs[r].pc = "boundary" /\ runs[r].i = 1
    /\ runs'[r] # runs[r]

\* C36: a cancel requested while no run is active does not reach the next
\* run. An accepted start leaves pipeline_cancel_requested false and
\* pipeline_last_error and pipeline_current_step null in the step that
\* schedules the loop; the flag is raised afterwards only by a cancel request,
\* which starts and ends nothing; and a loop that finds the flag false at the
\* boundary before its first step goes on to execute that step.
StaleCancelDoesNotReachNextRun ==
    /\ [][Len(runs') > Len(runs) =>
            /\ ~project'.pipeline_cancel_requested
            /\ project'.pipeline_last_error = None
            /\ project'.pipeline_current_step = None
            /\ runs'[Len(runs')].pc = "scheduled"]_vars
    /\ [][CancelFlagRises => UNCHANGED <<runs, tasks, remote>>]_vars
    /\ [][\A r \in 1..Len(runs) :
            (FirstBoundaryPassed(r) /\ ~project.pipeline_cancel_requested) =>
                /\ runs'[r].pc = "create"
                /\ project'.pipeline_current_step = runs[r].run_steps[1]]_vars

\* the start found the flag of an earlier cancel set, and the Job of the
\* first step of the run it scheduled has been submitted and has succeeded
StaleCancelWitness ==
    /\ probe.op = "start" /\ probe.code = 200 /\ probe.flag
    /\ ~project.pipeline_cancel_requested
    /\ \E t \in TaskIds : tasks[t].run = Len(runs) /\ tasks[t].idx = 1 /\ tasks[t].status = "success"

IsSuffixFrom(run_steps, steps, start) ==
    \E k \in 1..Len(steps) :
        /\ steps[k] = start
        /\ \A j \in 1..(k - 1) : steps[j] # start
        /\ Len(run_steps) = Len(steps) - k + 1
        /\ \A j \in 1..Len(run_steps) : run_steps[j] = steps[k + j - 1]

RunListOf(r) ==
    runs[r].pc \notin {"scheduled"} /\ runs[r].outcome # "nosteps" =>
        /\ runs[r].chain => IsSuffixFrom(runs[r].run_steps, runs[r].steps, runs[r].start)
        /\ ~runs[r].chain => runs[r].run_steps = <<runs[r].start>>
        /\ \A t \in TasksOfRun(r) :
              /\ tasks[t].idx \in 1..Len(runs[r].run_steps)
              /\ tasks[t].type = runs[r].run_steps[tasks[t].idx]
        /\ \A t, u \in TasksOfRun(r) : t < u => tasks[t].idx < tasks[u].idx

\* the loop that is executing step s of its run list
Executing(r, s) ==
    /\ runs[r].pc = "sp_poll"
    /\ runs[r].i \in 1..Len(runs[r].run_steps)
    /\ runs[r].run_steps[runs[r].i] = s

\* C5: the run list of a loop is stepOrder from startStep on when chain is
\* true and the single startStep otherwise; the Jobs of the loop are Jobs of
\* run-list steps, created in run-list order; and a stored result id changes
\* only for the step a loop is executing.
RunExecutesExactlyItsList ==
    /\ [](\A r \in Runs : RunListOf(r))
    /\ [][\A s \in StepNames :
            project'.result[s] # project.result[s] => \E r \in 1..Len(runs) : Executing(r, s)]_vars

\* start at background with chain = false on [try_on, background]: one
\* background Job, try_on has no Job and its stored result is as before
SingleStepRunWitness ==
    \E r \in Runs :
        /\ runs[r].pc = "done" /\ runs[r].outcome = "completed"
        /\ runs[r].steps = <<"try_on", "background">>
        /\ runs[r].run_steps = <<"background">>
        /\ ~runs[r].chain
        /\ \A t \in TasksOfRun(r) : tasks[t].type = "background" /\ tasks[t].status = "success"
        /\ TasksOfRun(r) # {}
        /\ project.result["try_on"] = OldTryOnResultId
        /\ project.result["background"] = FirstNewAssetId

\* C6: whenever a loop has a Job for a later step, its Jobs for the earlier
\* steps are Success or Failed; a loop never has two Jobs in a non-terminal status.
StepsRunSequentially ==
    \A r \in Runs :
        /\ \A t, u \in TasksOfRun(r) : t < u => tasks[t].status \in TerminalStatuses
        /\ Cardinality({t \in TasksOfRun(r) : tasks[t].status \notin TerminalStatuses}) <= 1

\* the Job of the second step is Running, the Job of the first has timed out
SecondJobRunningWitness ==
    \E r \in Runs : \E t, u \in TasksOfRun(r) :
        /\ tasks[t].idx = 1 /\ tasks[t].error = "Timeout failed (1h)"
        /\ tasks[u].idx = 2 /\ tasks[u].status = "running"

----------------------------------------------------------------------------
(* Remote status payloads and TaskStatusResponse                           *)
(* (app/services/runninghub/models.py).  A payload is the JSON object the  *)
(* remote API returns for a status poll or posts to the webhook; an absent *)
(* key and a null value are both None (NoCode for the integer code).       *)

NoCode == -1

\* `a or b` on strings
OrStr(a, b) == IF a \notin {None, ""} THEN a ELSE b

\* str.upper() on the status texts a payload can carry
Upper(v) ==
    CASE v = "success" -> "SUCCESS"
      [] v = "failed" -> "FAILED"
      [] OTHER -> v

\* an output item: {"url": ..., "fileUrl": ...}
OutputItems == [url : {None, "u"}, fileUrl : {None, "f"}]

NoData == [kind |-> "none", items |-> <<>>, failedReason |-> None]

\* `data` of the legacy shape: absent, a list of items, or an object with
\* "outputs" and "failedReason" (its exception_type)
DataValues ==
    {NoData}
    \cup {[kind |-> "list", items |-> l, failedReason |-> None] :
             l \in {<<>>, <<[url |-> None, fileUrl |-> "f"]>>}}
    \cup {[kind |-> "dict", items |-> l, failedReason |-> fr] :
             l \in {<<>>, <<[url |-> None, fileUrl |-> "f"]>>}, fr \in {None, "exception_type"}}

\* `results`/`outputs`: absent (an empty list) or a list of items
NoItems == <<>>

Payload(taskId, st, errorMessage, errorMsg, results, outputs, code, msg, data) ==
    [taskId |-> taskId, status |-> st, errorMessage |-> errorMessage, errorMsg |-> errorMsg,
     results |-> results, outputs |-> outputs, code |-> code, msg |-> msg, data |-> data]

\* the current shape: taskId/status at the top level
ShapeBPayloads ==
    {Payload(taskId, st, em, eg, results, outputs, NoCode, None, NoData) :
        taskId \in {None, "rh"},
        st \in {None, "SUCCESS", "FAILED", "RUNNING", "ERROR", "success"},
        em \in {None, "m"},
        eg \in {None, "e"},
        results \in SeqsUpTo(OutputItems, MaxOutputs),
        outputs \in {NoItems, <<[url |-> None, fileUrl |-> "g"]>>}}

\* the legacy shape: code, msg, data; 813/"APIKEY_TASK_IS_QUEUED" stands for
\* the codes and messages the properties do not name
ShapeAPayloads ==
    {Payload(None, None, None, None, NoItems, NoItems, code, msg, data) :
        code \in {NoCode, 0, 804, 805, 813},
        msg \in {None, "success", "TASK_RUNNING", "APIKEY_TASK_STATUS_ERROR", "APIKEY_TASK_IS_QUEUED"},
        data \in DataValues}

Payloads == ShapeAPayloads \cup ShapeBPayloads

_is_format2(d) == d.taskId # None \/ d.status # None

ResponseSuccess(d) == IF _is_format2(d) THEN d.status = "SUCCESS" ELSE d.code = 0

is_running(d) ==
    IF _is_format2(d) THEN d.status \in {"RUNNING", "QUEUED", None}
    ELSE IF d.code = NoCode /\ d.msg = None THEN TRUE
    ELSE d.code = 804 \/ d.msg = "TASK_RUNNING"

is_failed(d) ==
    IF _is_format2(d) THEN d.status = "FAILED" \/ d.errorMessage \notin {None, ""}
    ELSE d.code = 805 \/ d.msg = "APIKEY_TASK_STATUS_ERROR"

\* TaskStatusResponse.status
ResponseStatus(d) ==
    IF _is_format2(d)
    THEN IF d.status = "SUCCESS" THEN "SUCCESS"
         ELSE IF d.status = "FAILED" \/ d.errorMessage \notin {None, ""} THEN "FAILED"
         ELSE "RUNNING"
    ELSE IF ResponseSuccess(d) THEN "SUCCESS"
    ELSE IF is_failed(d) THEN "FAILED"
    ELSE IF is_running(d) THEN "RUNNING"
    ELSE "UNKNOWN"

\* TaskStatusResponse.outputs
ResponseOutputs(d) ==
    IF _is_format2(d) THEN d.results
    ELSE IF d.data.kind \in {"list", "dict"} THEN d.data.items
    ELSE <<>>

RECURSIVE FirstUrl(_)
\* the loop of result_url over the output items
FirstUrl(outputs) ==
    IF outputs = <<>> THEN None
    ELSE IF Head(outputs).url \notin {None, ""} THEN Head(outputs).url
    ELSE IF Head(outputs).fileUrl \notin {None, ""} THEN Head(outputs).fileUrl
    ELSE FirstUrl(Tail(outputs))

\* TaskStatusResponse.result_url
result_url(d) == FirstUrl(ResponseOutputs(d))

\* TaskStatusResponse.error_message
error_message(d) ==
    IF _is_format2(d) THEN d.errorMessage
    ELSE IF d.data.kind = "dict" /\ d.data.failedReason # None THEN d.data.failedReason
    ELSE IF is_failed(d) THEN d.msg ELSE None

\* mutant: a FAILED response does not end the polling
OnlySuccessIsTerminal(d) == ResponseStatus(d) \in {"SUCCESS", "COMPLETED", "FINISH"}

\* the statuses on which wait_for_completion returns the response
IsTerminalResponse(d) == ResponseStatus(d) \in {"SUCCESS", "COMPLETED", "FINISH", "FAILED", "ERROR", "CANCELLED", "FAIL"}

\* submit_and_poll_task, lines 536-602: <<status, result_url, error_message>>
\* written to a Task that held `old`, for the response wait_for_completion returned
PollRecord(old, d) ==
    IF ResponseStatus(d) = "SUCCESS" THEN <<"success", result_url(d), old[3]>>
    ELSE <<"failed", old[2], OrStr(error_message(d), "Task failed")>>

\* the first branch of the webhook: the result URL it stores
WebhookUrl(old_url, d) ==
    LET outputs == IF d.outputs # <<>> THEN d.outputs ELSE d.results
    IN  IF outputs = <<>> THEN old_url
        ELSE OrStr(outputs[1].fileUrl, OrStr(outputs[1].url, old_url))

\* runninghub_webhook, lines 640-700: <<status, result_url, error_message>>
\* written to a Task that held `old`, for the posted payload
WebhookRecord(old, d) ==
    IF Upper(OrStr(d.status, "")) = "SUCCESS" THEN <<"success", WebhookUrl(old[2], d), old[3]>>
    ELSE IF Upper(OrStr(d.status, "")) \in {"FAILED", "ERROR"}
         THEN <<"failed", old[2], IF d.errorMsg # None THEN d.errorMsg ELSE "Unknown error">>
    ELSE old

\* a Running Job before its terminal payload arrives
RunningRecord == <<"running", None, None>>

InitPayload ==
    /\ project = MkProject([s \in StepNames |-> s = "try_on"], JsonDumps(<<"try_on">>), None,
                           "try_on_result", None, ModelImageId, ClothingImageId, NoId, NoResults)
    /\ tasks = <<>>
    /\ runs = <<>>
    /\ startLimit = 0
    /\ nextAsset = FirstNewAssetId
    /\ remote = {}
    /\ probe \in {[NoProbe EXCEPT !.op = "payload", !.payload = d] : d \in Payloads}

\* the polling path records the payload
EvalPollPath ==
    /\ probe.op = "payload"
    /\ probe.poll = NoRecord
    /\ probe' = [probe EXCEPT !.poll = IF IsTerminalResponse(probe.payload)
                                       THEN PollRecord(RunningRecord, probe.payload)
                                       ELSE RunningRecord]
    /\ UNCHANGED <<project, tasks, runs, nextAsset, remote, startLimit>>

\* the webhook path records the payload
EvalWebhookPath ==
    /\ probe.op = "payload"
    /\ probe.hook = NoRecord
    /\ probe' = [probe EXCEPT !.hook = WebhookRecord(RunningRecord, probe.payload)]
    /\ UNCHANGED <<project, tasks, runs, nextAsset, remote, startLimit>>

\* get_task_status hands the parsed payload to its caller, which reads
\* <<status, result_url>>
EvalNormalize ==
    /\ probe.op = "payload"
    /\ probe.norm = <<>>
    /\ probe' = [probe EXCEPT !.norm = <<ResponseStatus(probe.payload), result_url(probe.payload)>>]
    /\ UNCHANGED <<project, tasks, runs, nextAsset, remote, startLimit>>

NextPayload == EvalPollPath \/ EvalWebhookPath \/ EvalNormalize

SpecPayload == InitPayload /\ [][NextPayload]_vars

\* C19: a payload that names the Job (taskId present) and that the polling
\* path classifies as terminal is recorded by the webhook path with the same
\* Job status, the same result URL and the same error message.
WebhookRecordsWhatPollingRecords ==
    (/\ probe.op = "payload"
     /\ probe.poll # NoRecord /\ probe.hook # NoRecord
     /\ probe.payload.taskId # None
     /\ IsTerminalResponse(probe.payload)) => probe.hook = probe.poll

\* C23: for a payload of the current shape (taskId or status present), a
\* non-empty errorMessage makes the normalized status FAILED whatever the
\* status field says, "SUCCESS" included.
ErrorMessageMeansFailed ==
    (/\ probe.op = "payload" /\ probe.norm # <<>>
     /\ probe.payload.taskId # None \/ probe.payload.status # None
     /\ probe.payload.errorMessage \notin {None, ""}) => probe.norm[1] = "FAILED"

\* C24: the normalized status of every payload, of either shape, is one of
\* SUCCESS, RUNNING, FAILED.
NormalizedStatusIsCanonical ==
    (probe.op = "payload" /\ probe.norm # <<>>) => probe.norm[1] \in {"SUCCESS", "RUNNING", "FAILED"}

ResultUrlComesFromFirstItem ==
    (probe.op = "payload" /\ probe.norm # <<>>) =>
        LET outputs == ResponseOutputs(probe.payload)
        IN  probe.norm[2] =
                (IF outputs = <<>> THEN None
                 ELSE IF outputs[1].url \notin {None, ""} THEN outputs[1].url
                 ELSE IF outputs[1].fileUrl \notin {None, ""} THEN outputs[1].fileUrl
                 ELSE None)

----------------------------------------------------------------------------
(* runninghub_webhook (app/api/tasks.py) and update_task_status            *)
(* (app/tasks/ai_tasks.py): the two other writers of a Task row            *)

\* the bodies the remote service posts for a Job
WebhookPayloads ==
    {Payload("rh", "SUCCESS", None, None, <<[url |-> "u", fileUrl |-> None]>>, NoItems, NoCode, None, NoData),
     Payload("rh", "SUCCESS", None, None, NoItems, NoItems, NoCode, None, NoData),
     Payload("rh", "FAILED", "m", "e", NoItems, NoItems, NoCode, None, NoData),
     Payload("rh", "RUNNING", None, None, NoItems, NoItems, NoCode, None, NoData)}

\* the webhook for the Job t (the Task whose runninghub_task_id is the payload's taskId)
runninghub_webhook(t, d) ==
    /\ t \in TaskIds
    /\ tasks[t].ext # None
    /\ d.taskId = tasks[t].ext
    /\ LET rec == WebhookRecord(<<tasks[t].status, tasks[t].url, tasks[t].error>>, d)
           creates == /\ Upper(OrStr(d.status, "")) = "SUCCESS"
                      /\ rec[2] \notin {None, ""}
                      /\ tasks[t].result = NoId
       IN  /\ tasks' = [tasks EXCEPT ![t].status = rec[1], ![t].url = rec[2], ![t].error = rec[3],
                                     ![t].result = IF creates THEN nextAsset ELSE @]
           /\ IF creates
              THEN /\ project' = [project EXCEPT !.result[tasks[t].type] = nextAsset]
                   /\ nextAsset' = nextAsset + 1
              ELSE UNCHANGED <<project, nextAsset>>
    /\ UNCHANGED <<runs, remote, startLimit, probe>>

\* _update_task_status_async, lines 183-198: load the Task, return unless it
\* is Queued or Running, else ask the remote service for the status
UpdateStatusLoad(t) ==
    /\ t \in TaskIds
    /\ tasks[t].ext # None
    /\ tasks[t].status \in {"queued", "running"}
    /\ [op |-> "status", task |-> t] \notin remote
    /\ remote' = remote \cup {[op |-> "status", task |-> t]}
    /\ UNCHANGED <<project, tasks, runs, nextAsset, startLimit, probe>>

\* lines 200-219: the status call has returned d; write what it says
UpdateStatusWrite(t, d) ==
    /\ [op |-> "status", task |-> t] \in remote
    /\ [op |-> "status_returned", task |-> t] \notin remote
    /\ remote' = remote \cup {[op |-> "status_returned", task |-> t]}
    /\ tasks' = IF ResponseStatus(d) \in {"SUCCESS", "COMPLETED"}
                THEN [tasks EXCEPT ![t].status = "success",
                                   ![t].url = IF result_url(d) # None THEN result_url(d) ELSE @]
                ELSE IF ResponseStatus(d) \in {"FAILED", "ERROR"}
                THEN [tasks EXCEPT ![t].status = "failed",
                                   ![t].error = IF error_message(d) # None THEN error_message(d) ELSE @]
                ELSE tasks
    /\ UNCHANGED <<project, runs, nextAsset, startLimit, probe>>

\* one try_on step, with or without the result of an earlier run
InitJobs ==
    /\ project \in ConfigsOf(<<"try_on">>)
    /\ tasks = <<>>
    /\ runs = <<>>
    /\ nextAsset = FirstNewAssetId
    /\ remote = {}
    /\ probe = NoProbe
    /\ startLimit = MaxRuns

NextJobs ==
    \/ Next
    \/ \E t \in TaskIds, d \in WebhookPayloads : runninghub_webhook(t, d)
    \/ \E t \in TaskIds : UpdateStatusLoad(t)
    \/ \E t \in TaskIds, d \in WebhookPayloads : UpdateStatusWrite(t, d)

SpecJobs == InitJobs /\ [][NextJobs]_vars

\* C16: once a Job is "success" or "failed" its status never changes again.
TerminalJobIsImmutable ==
    [][\A t \in 1..Len(tasks) :
          tasks[t].status \in TerminalStatuses => tasks'[t].status = tasks[t].status]_vars

\* C18: the result artifact of a Job, once set, is never replaced by
\* another one (no second Asset is created for the Job).
ResultArtifactIsNeverReplaced ==
    [][\A t \in 1..Len(tasks) :
          tasks[t].result # NoId => tasks'[t].result = tasks[t].result]_vars

----------------------------------------------------------------------------
(* One execution of submit_and_poll_task (app/api/tasks.py, path "api") or *)
(* of process_ai_task (app/tasks/ai_tasks.py, path "celery") for a Task    *)
(* created by a direct task endpoint, with wait_for_completion             *)
(* (app/services/runninghub/client.py) taken poll by poll.  runs[e] holds  *)
(* the local variables of execution e; times are in seconds.               *)

PollInterval == 2
MaxTaskTimeout == 5

Min(a, b) == IF a < b THEN a ELSE b

CeilDiv(a, b) == (a + b - 1) \div b

Paths == {"api", "celery"}

\* the Assets submit_and_poll_task loads and uploads for a Task of the type
TaskInputs(type) ==
    CASE type = "try_on" -> {"model_image", "clothing_image"}
      [] type = "background" -> {"source_image", "background_image"}
      [] OTHER -> {"person_image", "reference_video"}

\* the inputs behind the `if not ...` tests on the loaded Assets and on the
\* names the uploads returned
CheckedInputs(type) == IF type = "background" THEN {"source_image"} ELSE TaskInputs(type)

AssetNotFound(type) ==
    CASE type = "try_on" -> "Asset not found"
      [] type = "background" -> "Source asset not found"
      [] OTHER -> "Required asset not found"

UploadFailed(type) ==
    IF type = "video" THEN "Failed to upload assets to RunningHub"
    ELSE "Failed to upload images to RunningHub"

\* a Task row as the direct endpoints insert it, with progress_percent and
\* completed_at (set or not)
DirectTask(type) ==
    [type |-> type, status |-> "pending", run |-> 0, idx |-> 0, person |-> NoId,
     ext |-> None, url |-> None, result |-> NoId, error |-> None,
     progress |-> 0, completed |-> FALSE]

\* `response` before create_task has returned
NoResponse == [made |-> FALSE, task_id |-> None, status |-> None, error_message |-> None]

\* the bodies create_task parses into a TaskCreateResponse
CreateResponses ==
    [made : {TRUE}, task_id : {None, "", "rh"},
     status : {None, "RUNNING", "QUEUED", "SUCCESS", "FAILED"}, error_message : {None, "m"}]

\* mutant: the status of the response is not looked at
CreateSuccessIgnoresStatus(resp) == resp.task_id \notin {None, ""}

\* TaskCreateResponse.success
CreateSuccess(resp) ==
    resp.task_id \notin {None, ""} /\ resp.status \in {"RUNNING", "QUEUED", "SUCCESS"}

\* what a status poll returns: the payload and TaskStatusResponse.progress
PollReplies ==
    {[d |-> Payload("rh", "RUNNING", None, None, NoItems, NoItems, NoCode, None, NoData), progress |-> 0],
     [d |-> Payload("rh", "RUNNING", None, None, NoItems, NoItems, NoCode, None, NoData), progress |-> 50],
     [d |-> Payload("rh", "RUNNING", None, None, NoItems, NoItems, NoCode, None, NoData), progress |-> 150],
     [d |-> Payload(None, None, None, None, NoItems, NoItems, 813, "APIKEY_TASK_IS_QUEUED", NoData), progress |-> 0],
     [d |-> Payload("rh", "SUCCESS", None, None, <<[url |-> "u", fileUrl |-> None]>>, NoItems, NoCode, None, NoData),
      progress |-> 0],
     [d |-> Payload("rh", "SUCCESS", None, None, NoItems, NoItems, NoCode, None, NoData), progress |-> 0],
     [d |-> Payload("rh", "FAILED", "m", None, NoItems, NoItems, NoCode, None, NoData), progress |-> 0]}

\* mutant: the estimate is not capped
CallbackProgressUncapped(progress, st, elapsed) ==
    IF progress = 0 /\ st = "RUNNING" THEN (elapsed * 100) \div 60 ELSE progress

\* the progress handed to the callback
CallbackProgress(progress, st, elapsed) ==
    IF progress = 0 /\ st = "RUNNING" THEN Min(95, (elapsed * 100) \div 60) ELSE progress

\* mutant: the loop gives up one interval early
LoopContinuesOneShort(elapsed, timeout) == elapsed + PollInterval < timeout

\* `while elapsed < timeout`
LoopContinues(elapsed, timeout) == elapsed < timeout

\* mutant: an exception of the callback leaves wait_for_completion
CallbackErrorPropagates(raises) == raises

\* `try: await on_progress(...) except Exception: pass`: does an exception of
\* the callback leave wait_for_completion?
CallbackAborts(raises) == FALSE

\* the callback each path hands to wait_for_completion
HasCallback(path) == path = "api"

\* the TimeoutError handler of each path: error_message, and whether
\* cancel_task is called
TimeoutMessage(path) == IF path = "api" THEN "Timeout failed (1h)" ELSE "Task timed out"

CancelsOnTimeout(path) == path = "celery"

\* the statuses each path records as Success
RecordsSuccess(path, st) == IF path = "api" THEN st = "SUCCESS" ELSE st \in {"SUCCESS", "COMPLETED"}

\* the result Asset is created by submit_and_poll_task only
CreatesAsset(path, url) == path = "api" /\ url \notin {None, ""}

\* process_ai_task is declared with max_retries=3
max_retries == 3

\* `seen` is the status the select returned; `retries` counts the Celery
\* retries that led to this invocation
Execution(path, has) ==
    [pc |-> "load", path |-> path, task |-> 1, has |-> has, response |-> NoResponse,
     elapsed |-> 0, polled |-> <<>>, calls |-> <<>>, raised |-> {}, status_response |-> <<>>,
     outcome |-> None, seen |-> None, retries |-> 0]

JobFailed(row, error) == [row EXCEPT !.status = "failed", !.error = error, !.completed = TRUE]

JobDone(run, outcome) == [run EXCEPT !.pc = "done", !.outcome = outcome]

\* the test on the loaded status: Pending (Celery: Pending or Queued)
Startable(path, status) ==
    IF path = "api" THEN status = "pending" ELSE status \in {"pending", "queued"}

\* the select that loads the Task into the session of the invocation
JobLoad(e) ==
    /\ runs[e].pc = "load"
    /\ runs' = [runs EXCEPT ![e].pc = "check", ![e].seen = tasks[runs[e].task].status]
    /\ UNCHANGED <<project, tasks, nextAsset, remote, startLimit, probe>>

\* the test on the loaded Task, then Queued and the commit; the UPDATE sets
\* the status column when the assignment changed the loaded value
JobQueue(e) ==
    /\ runs[e].pc = "check"
    /\ LET t == runs[e].task
       IN  IF ~Startable(runs[e].path, runs[e].seen)
           THEN /\ runs' = [runs EXCEPT ![e] = JobDone(@, "skipped")]
                /\ UNCHANGED tasks
           ELSE /\ tasks' = [tasks EXCEPT ![t].status = IF runs[e].seen = "queued" THEN @ ELSE "queued"]
                /\ runs' = [runs EXCEPT ![e].pc = IF runs[e].path = "api" THEN "upload" ELSE "create"]
    /\ UNCHANGED <<project, nextAsset, remote, startLimit, probe>>

\* tasks.py 395-507: load the Assets, upload each one found, test the names
JobUpload(e, names, raises) ==
    /\ runs[e].pc = "upload"
    /\ LET t == runs[e].task
           type == tasks[t].type
           has == runs[e].has
       IN  IF CheckedInputs(type) \ has # {}
           THEN /\ tasks' = [tasks EXCEPT ![t] = JobFailed(@, AssetNotFound(type))]
                /\ runs' = [runs EXCEPT ![e] = JobDone(@, "asset_missing")]
                /\ UNCHANGED remote
           ELSE IF raises
           THEN /\ tasks' = [tasks EXCEPT ![t] = JobFailed(@, "exception text")]
                /\ runs' = [runs EXCEPT ![e] = JobDone(@, "upload_exception")]
                /\ UNCHANGED remote
           ELSE /\ remote' = remote \cup {[op |-> "upload", task |-> t, input |-> i, name |-> names[i]] : i \in has}
                /\ IF \E i \in CheckedInputs(type) : names[i] = None
                   THEN /\ tasks' = [tasks EXCEPT ![t] = JobFailed(@, UploadFailed(type))]
                        /\ runs' = [runs EXCEPT ![e] = JobDone(@, "upload_null")]
                   ELSE /\ runs' = [runs EXCEPT ![e].pc = "create"]
                        /\ UNCHANGED tasks
    /\ UNCHANGED <<project, nextAsset, startLimit, probe>>

\* tasks.py 509-522, ai_tasks.py 99-111: create_task and the test of its
\* response.  On the Celery path the rejection branch reads response.msg,
\* which TaskCreateResponse does not have: the AttributeError is handled by
\* `except Exception`
JobCreate(e, resp, raises) ==
    /\ runs[e].pc = "create"
    /\ LET t == runs[e].task
       IN  /\ remote' = remote \cup {[op |-> "submit", task |-> t, by |-> e]}
           /\ IF raises
              THEN /\ tasks' = [tasks EXCEPT ![t] = JobFailed(@, "exception text")]
                   /\ runs' = [runs EXCEPT ![e] = JobDone(@, "create_exception")]
              ELSE IF ~CreateSuccess(resp)
              THEN /\ tasks' = [tasks EXCEPT ![t] =
                                   JobFailed(@, IF runs[e].path = "api"
                                                THEN OrStr(resp.error_message, "Task creation failed")
                                                ELSE "exception text")]
                   /\ runs' = [runs EXCEPT ![e] = JobDone([@ EXCEPT !.response = resp], "rejected")]
              ELSE /\ tasks' = [tasks EXCEPT ![t].status = "running", ![t].ext = resp.task_id]
                   /\ runs' = [runs EXCEPT ![e].pc = "poll", ![e].response = resp, ![e].elapsed = 0]
    /\ UNCHANGED <<project, nextAsset, startLimit, probe>>

\* one iteration of wait_for_completion (client.py 187-209) and, when it
\* returns the response, the code that records it (tasks.py 536-604,
\* ai_tasks.py 119-142)
JobPoll(e, reply, cb_raises) ==
    /\ runs[e].pc = "poll"
    /\ LoopContinues(runs[e].elapsed, MaxTaskTimeout)
    /\ cb_raises => HasCallback(runs[e].path)
    /\ LET r == runs[e]
           t == r.task
           st == ResponseStatus(reply.d)
           progress == CallbackProgress(reply.progress, st, r.elapsed)
           n == Len(r.polled) + 1
           polled == [r EXCEPT !.polled = Append(@, st),
                               !.calls = IF HasCallback(r.path) THEN Append(@, <<st, progress, r.elapsed>>) ELSE @,
                               !.raised = IF cb_raises THEN @ \cup {n} ELSE @]
           row == IF HasCallback(r.path) /\ ~cb_raises
                  THEN [tasks[t] EXCEPT !.progress = progress] ELSE tasks[t]
           url == result_url(reply.d)
       IN  /\ remote' = remote \cup {[op |-> "poll", task |-> t, n |-> n]}
           /\ IF CallbackAborts(cb_raises)
              THEN /\ tasks' = [tasks EXCEPT ![t] = JobFailed(row, "exception text")]
                   /\ runs' = [runs EXCEPT ![e] = JobDone(polled, "callback_exception")]
                   /\ UNCHANGED <<project, nextAsset>>
              ELSE IF IsTerminalResponse(reply.d)
              THEN /\ runs' = [runs EXCEPT ![e] = JobDone([polled EXCEPT !.status_response = reply.d], "returned")]
                   /\ IF RecordsSuccess(r.path, st)
                      THEN /\ tasks' = [tasks EXCEPT ![t] =
                                           [row EXCEPT !.status = "success", !.url = url, !.progress = 100,
                                                       !.completed = TRUE,
                                                       !.result = IF CreatesAsset(r.path, url) THEN nextAsset ELSE @]]
                           /\ IF CreatesAsset(r.path, url)
                              THEN /\ project' = [project EXCEPT !.result[tasks[t].type] = nextAsset]
                                   /\ nextAsset' = nextAsset + 1
                              ELSE UNCHANGED <<project, nextAsset>>
                      ELSE /\ tasks' = [tasks EXCEPT ![t] = JobFailed(row, OrStr(error_message(reply.d), "Task failed"))]
                           /\ UNCHANGED <<project, nextAsset>>
              ELSE /\ tasks' = [tasks EXCEPT ![t] = row]
                   /\ runs' = [runs EXCEPT ![e] = [polled EXCEPT !.elapsed = @ + PollInterval]]
                   /\ UNCHANGED <<project, nextAsset>>
    /\ UNCHANGED <<startLimit, probe>>

\* mutant: wait_for_completion swallows the exception of a poll and sleeps
\* until the next one
JobPollRaisesRetried(e) ==
    /\ runs[e].pc = "poll"
    /\ LoopContinues(runs[e].elapsed, MaxTaskTimeout)
    /\ remote' = remote \cup {[op |-> "poll", task |-> runs[e].task, n |-> Len(runs[e].polled) + 1]}
    /\ runs' = [runs EXCEPT ![e].elapsed = @ + PollInterval]
    /\ UNCHANGED <<project, tasks, nextAsset, startLimit, probe>>

\* get_task_status raises (transport or HTTP error): `except Exception`
JobPollRaises(e) ==
    /\ runs[e].pc = "poll"
    /\ LoopContinues(runs[e].elapsed, MaxTaskTimeout)
    /\ LET t == runs[e].task
       IN  /\ remote' = remote \cup {[op |-> "poll", task |-> t, n |-> Len(runs[e].polled) + 1]}
           /\ tasks' = [tasks EXCEPT ![t] = JobFailed(@, "exception text")]
           /\ runs' = [runs EXCEPT ![e] = JobDone(@, "poll_exception")]
    /\ UNCHANGED <<project, nextAsset, startLimit, probe>>

\* the loop condition fails: TimeoutError and its handler (tasks.py 606-610,
\* ai_tasks.py 150-163; the result of cancel_task is not looked at)
JobTimeout(e, cancel_ok) ==
    /\ runs[e].pc = "poll"
    /\ ~LoopContinues(runs[e].elapsed, MaxTaskTimeout)
    /\ ~cancel_ok => CancelsOnTimeout(runs[e].path)
    /\ LET t == runs[e].task
       IN  /\ tasks' = [tasks EXCEPT ![t] = JobFailed(@, TimeoutMessage(runs[e].path))]
           /\ remote' = IF CancelsOnTimeout(runs[e].path) /\ tasks[t].ext \notin {None, ""}
                        THEN remote \cup {[op |-> "cancel", task |-> t, ok |-> cancel_ok]}
                        ELSE remote
           /\ runs' = [runs EXCEPT ![e] = JobDone(@, "timeout")]
    /\ UNCHANGED <<project, nextAsset, startLimit, probe>>

\* the ways an invocation of process_ai_task ends in its `except Exception`
\* handler
RaisedOutcomes == {"create_exception", "rejected", "poll_exception"}

\* ai_tasks.py 165-172: the handler has marked the Task Failed and raises
\* celery_task.retry; the worker runs process_ai_task again for the Task
JobRetry(e) ==
    /\ e = Len(runs)
    /\ runs[e].path = "celery"
    /\ runs[e].pc = "done"
    /\ runs[e].outcome \in RaisedOutcomes
    /\ runs[e].retries < max_retries
    /\ runs' = Append(runs, [Execution("celery", runs[e].has) EXCEPT !.retries = runs[e].retries + 1])
    /\ UNCHANGED <<project, tasks, nextAsset, remote, startLimit, probe>>

\* a project with every workflow enabled and one Pending Task of a direct
\* endpoint; `has` are the inputs whose Asset row still exists
InitSubmit ==
    /\ project = MkProject([s \in StepNames |-> TRUE], JsonDumps(_BASE_STEP_ORDER), None,
                           "try_on_result", None, ModelImageId, ClothingImageId,
                           BackgroundImageId, NoResults)
    /\ \E type \in StepNames, path \in Paths :
          \E has \in SUBSET TaskInputs(type) :
              /\ path = "celery" => has = TaskInputs(type)
              /\ tasks = <<DirectTask(type)>>
              /\ runs = <<Execution(path, has)>>
    /\ nextAsset = FirstNewAssetId
    /\ remote = {}
    /\ startLimit = 0
    /\ probe = NoProbe

NextSubmit ==
    \/ \E e \in 1..Len(runs) : JobLoad(e)
    \/ \E e \in 1..Len(runs) : JobQueue(e)
    \/ \E e \in 1..Len(runs) : JobRetry(e)
    \/ \E e \in 1..Len(runs), raises \in BOOLEAN :
          \E names \in [runs[e].has -> {None, "up"}] : JobUpload(e, names, raises)
    \/ \E e \in 1..Len(runs), resp \in CreateResponses, raises \in BOOLEAN : JobCreate(e, resp, raises)
    \/ \E e \in 1..Len(runs), reply \in PollReplies, cb_raises \in BOOLEAN : JobPoll(e, reply, cb_raises)
    \/ \E e \in 1..Len(runs) : JobPollRaises(e)
    \/ \E e \in 1..Len(runs), cancel_ok \in BOOLEAN : JobTimeout(e, cancel_ok)

SpecSubmit == InitSubmit /\ [][NextSubmit]_vars

Executions == 1..Len(runs)

PollCalls(t) == {c \in remote : c.op = "poll" /\ c.task = t}

\* C21: a create_task response without a non-empty job id, or with a status
\* outside QUEUED/RUNNING/SUCCESS, leaves the Job Failed with an error
\* message, stores no external job id and is followed by no status poll.
RejectedSubmissionIsNeverPolled ==
    \A e \in Executions :
        LET r == runs[e]
            accepted == /\ r.response.task_id \notin {None, ""}
                        /\ r.response.status \in {"QUEUED", "RUNNING", "SUCCESS"}
        IN  (r.pc # "load" /\ r.response.made /\ ~accepted) =>
                /\ tasks[r.task].status = "failed"
                /\ tasks[r.task].error \notin {None, ""}
                /\ tasks[r.task].ext = None
                /\ PollCalls(r.task) = {}
                /\ r.pc = "done"

\* a job id came back with the status FAILED, and an accepted status came
\* back with an empty job id
RejectedSubmissionWitness ==
    \E e \in Executions :
        /\ runs[e].path = "api" /\ runs[e].outcome = "rejected"
        /\ \/ runs[e].response.task_id = "rh" /\ runs[e].response.status = "FAILED"
           \/ runs[e].response.task_id = "" /\ runs[e].response.status = "RUNNING"
        /\ tasks[runs[e].task].status = "failed"

\* C32: the progress_percent of every Job is in 0..100, and it is 100 when
\* the Job is Success.
ProgressPercentInRange ==
    \A t \in 1..Len(tasks) :
        /\ tasks[t].progress \in 0..100
        /\ tasks[t].status = "success" => tasks[t].progress = 100

\* C22: when the upload of any input of the Job returned null, the Job is
\* Failed and no submit call is made for it.
NullUploadIsFatal ==
    \A c \in remote :
        (c.op = "upload" /\ c.name = None) =>
            /\ tasks[c.task].status = "failed"
            /\ \A s \in remote : ~(s.op = "submit" /\ s.task = c.task)

Terminal(st) == st \in {"SUCCESS", "FAILED"}

\* C27: polling ends at the first poll whose status is SUCCESS or FAILED:
\* the callback has been invoked once per poll with the status of that
\* poll, only the last invocation carries a terminal status, no poll follows
\* it, and the Job records that result.
PollingEndsAtFirstTerminal ==
    \A e \in Executions :
        LET r == runs[e]
            n == Len(r.polled)
        IN  /\ \A i \in 1..(n - 1) : ~Terminal(r.polled[i])
            /\ HasCallback(r.path) =>
                  /\ Len(r.calls) = n
                  /\ \A i \in 1..n : r.calls[i][1] = r.polled[i]
            /\ (n > 0 /\ Terminal(r.polled[n])) =>
                  /\ r.pc = "done" /\ r.outcome = "returned"
                  /\ Cardinality(PollCalls(r.task)) = n
                  /\ tasks[r.task].status = (IF r.polled[n] = "SUCCESS" THEN "success" ELSE "failed")
            /\ r.outcome = "returned" => (n > 0 /\ Terminal(r.polled[n]))

\* two Running polls, then a terminal one
ThirdPollTerminalWitness ==
    \E e \in Executions :
        /\ runs[e].path = "api" /\ runs[e].outcome = "returned"
        /\ runs[e].polled = <<"RUNNING", "RUNNING", "SUCCESS">>
        /\ Len(runs[e].calls) = 3
        /\ tasks[runs[e].task].status = "success"

\* C28: without a terminal status wait_for_completion makes
\* ceil(timeout / poll_interval) polls, each at an elapsed time below the
\* timeout, and then times out; submit_and_poll_task records the Job as
\* Failed with "Timeout failed (1h)" and a completion timestamp.
TimeoutAfterBoundedPolls ==
    \A e \in Executions :
        LET r == runs[e]
            bound == CeilDiv(MaxTaskTimeout, PollInterval)
        IN  /\ Cardinality(PollCalls(r.task)) <= bound
            /\ \A i \in 1..Len(r.calls) : r.calls[i][3] < MaxTaskTimeout
            /\ (r.pc = "poll" /\ Len(r.polled) < bound) => r.elapsed < MaxTaskTimeout
            /\ (r.pc = "poll" /\ Len(r.polled) = bound) => r.elapsed >= MaxTaskTimeout
            /\ r.outcome = "timeout" =>
                  /\ Len(r.polled) = bound
                  /\ \A i \in 1..bound : ~Terminal(r.polled[i])
                  /\ tasks[r.task].status = "failed"
                  /\ tasks[r.task].completed
                  /\ r.path = "api" => tasks[r.task].error = "Timeout failed (1h)"

TimeoutWitness ==
    \E e \in Executions :
        /\ runs[e].path = "api" /\ runs[e].outcome = "timeout"
        /\ Len(runs[e].polled) = CeilDiv(MaxTaskTimeout, PollInterval)
        /\ tasks[runs[e].task].error = "Timeout failed (1h)"

\* C29: after a timeout of the polling a cancel call for the Job has been
\* made, on either path, and the Job is Failed with the timeout message
\* whether or not that call succeeded.
TimeoutCancelsRemoteJob ==
    \A e \in Executions :
        runs[e].outcome = "timeout" =>
            /\ \E c \in remote : c.op = "cancel" /\ c.task = runs[e].task
            /\ tasks[runs[e].task].status = "failed"
            /\ tasks[runs[e].task].error = TimeoutMessage(runs[e].path)

\* C30: when the callback raised on some poll, the polls are made on the
\* schedule 0, poll_interval, 2*poll_interval, ..., the execution does not
\* end with the callback's exception, and the Job records what the last
\* response says, as it does when the callback never raises.
CallbackErrorsAreDiscarded ==
    \A e \in Executions :
        LET r == runs[e]
            n == Len(r.polled)
        IN  r.raised # {} =>
                /\ \A i \in 1..Len(r.calls) : r.calls[i][3] = (i - 1) * PollInterval
                /\ r.pc = "poll" => r.elapsed = n * PollInterval
                /\ r.outcome \in {None, "returned", "timeout", "poll_exception"}
                /\ r.outcome = "returned" <=> (n > 0 /\ Terminal(r.polled[n]))
                /\ r.outcome = "timeout" => n = CeilDiv(MaxTaskTimeout, PollInterval)
                /\ r.outcome = "returned" =>
                      /\ <<tasks[r.task].status, tasks[r.task].url, tasks[r.task].error>>
                             = PollRecord(RunningRecord, r.status_response)
                      /\ tasks[r.task].completed

\* the callback raised on the first poll and polling went on to a result
CallbackErrorWitness ==
    \E e \in Executions :
        /\ 1 \in runs[e].raised
        /\ runs[e].polled = <<"RUNNING", "RUNNING", "SUCCESS">>
        /\ runs[e].outcome = "returned"
        /\ tasks[runs[e].task].status = "success"

\* C38: an exception raised by a status poll ends wait_for_completion at
\* once: for an invocation that has entered wait_for_completion, a poll
\* that returned no response is the last call made for the Job,
\* no cancel is sent, the invocation has ended, and the Job is Failed with the
\* text of the exception as error_message.
PollExceptionEndsPolling ==
    /\ [](\A e \in Executions :
            LET r == runs[e]
                t == r.task
            IN  (r.response.made /\ CreateSuccess(r.response)) =>
                    /\ Cardinality(PollCalls(t)) \in {Len(r.polled), Len(r.polled) + 1}
                    /\ Cardinality(PollCalls(t)) > Len(r.polled) =>
                            /\ r.pc = "done" /\ r.outcome = "poll_exception"
                            /\ tasks[t].status = "failed"
                            /\ tasks[t].error = "exception text"
                            /\ tasks[t].completed
                            /\ \A c \in remote : c.op # "cancel")
    /\ [][(\E e \in 1..Len(runs) : runs[e].outcome = "poll_exception") => remote' = remote]_vars

\* the second poll of submit_and_poll_task raised after a first one that
\* answered RUNNING
PollExceptionWitness ==
    \E e \in Executions :
        /\ runs[e].path = "api" /\ runs[e].outcome = "poll_exception"
        /\ runs[e].polled = <<"RUNNING">>
        /\ Cardinality(PollCalls(runs[e].task)) = 2
        /\ tasks[runs[e].task].status = "failed"

SubmitCallsBy(e) == {c \in remote : c.op = "submit" /\ c.by = e}

\* C39: on the Celery path a retried invocation of process_ai_task submits
\* the Job to the remote API again.
RetrySubmitsJobAgain ==
    \A e \in Executions :
        (runs[e].retries > 0 /\ runs[e].pc = "done") => SubmitCallsBy(e) # {}

----------------------------------------------------------------------------
(* Two invocations for one Job: two background tasks running               *)
(* submit_and_poll_task, or a background task and the Celery worker        *)
(* running process_ai_task.  Each has its own database session; their      *)
(* steps interleave at the awaits.                                         *)

\* the create_task responses and poll replies considered for two invocations
TwiceResponses ==
    {resp \in CreateResponses :
        resp.task_id = "rh" /\ resp.error_message = None /\ resp.status \in {"RUNNING", "FAILED"}}

TwiceReplies == {reply \in PollReplies : reply.progress = 0}

InitTwice ==
    /\ project = MkProject([s \in StepNames |-> TRUE], JsonDumps(_BASE_STEP_ORDER), None,
                           "try_on_result", None, ModelImageId, ClothingImageId,
                           BackgroundImageId, NoResults)
    /\ \E type \in StepNames, path \in Paths :
          /\ tasks = <<DirectTask(type)>>
          /\ runs = <<Execution("api", TaskInputs(type)), Execution(path, TaskInputs(type))>>
    /\ nextAsset = FirstNewAssetId
    /\ remote = {}
    /\ startLimit = 0
    /\ probe = NoProbe

NextTwice ==
    \/ \E e \in 1..Len(runs) : JobLoad(e)
    \/ \E e \in 1..Len(runs) : JobQueue(e)
    \/ \E e \in 1..Len(runs) : JobRetry(e)
    \/ \E e \in 1..Len(runs), raises \in BOOLEAN :
          \E names \in [runs[e].has -> {"up"}] : JobUpload(e, names, raises)
    \/ \E e \in 1..Len(runs), resp \in TwiceResponses, raises \in BOOLEAN : JobCreate(e, resp, raises)
    \/ \E e \in 1..Len(runs), reply \in TwiceReplies : JobPoll(e, reply, FALSE)
    \/ \E e \in 1..Len(runs) : JobPollRaises(e)
    \/ \E e \in 1..Len(runs), cancel_ok \in BOOLEAN : JobTimeout(e, cancel_ok)

SpecTwice == InitTwice /\ [][NextTwice]_vars

SubmitsOf(t) == {c \in remote : c.op = "submit" /\ c.task = t}

\* the remote calls and the row are as an invocation found them, when the
\* status it loaded was not Pending
SkippedChangesNothing ==
    \A e \in 1..Len(runs) :
        (runs[e].path = "api" /\ runs[e].pc = "check" /\ runs[e].seen # "pending") =>
            /\ runs'[e].pc \in {"check", "done"}
            /\ runs'[e].pc = "done" => UNCHANGED <<tasks, remote, project, nextAsset>>

\* C37: each Job is submitted to the remote API at most once: an invocation
\* of submit_and_poll_task that finds the Job not Pending makes no remote
\* call and changes nothing, and whatever the interleaving of two
\* invocations for one Job, at most one create_task call is made for it.
JobIsSubmittedAtMostOnce ==
    /\ [][SkippedChangesNothing]_vars
    /\ [](\A t \in 1..Len(tasks) : Cardinality(SubmitsOf(t)) <= 1)

----------------------------------------------------------------------------
(* wait_for_completion on its own, with the defaults of its signature      *)
(* (poll_interval 3 s, timeout 300 s) and a callback; `probe` holds its     *)
(* local variables and what the latest callback invocation was given.      *)

DefaultPollInterval == 3
DefaultTimeout == 300

WaitStart ==
    [op |-> "wait", elapsed |-> 0, sleeps |-> 0, polls |-> 0, last |-> <<>>, synth |-> -1,
     result |-> None]

InitWait ==
    /\ project = MkProject([s \in StepNames |-> TRUE], JsonDumps(_BASE_STEP_ORDER), None,
                           "try_on_result", None, ModelImageId, ClothingImageId,
                           BackgroundImageId, NoResults)
    /\ tasks = <<>>
    /\ runs = <<>>
    /\ startLimit = 0
    /\ nextAsset = FirstNewAssetId
    /\ remote = {}
    /\ probe = WaitStart

\* one iteration: poll, callback, terminal tests, sleep
WaitPoll(reply) ==
    /\ probe.op = "wait" /\ probe.result = None
    /\ LoopContinues(probe.elapsed, DefaultTimeout)
    /\ LET st == ResponseStatus(reply.d)
           progress == CallbackProgress(reply.progress, st, probe.elapsed)
           returns == IsTerminalResponse(reply.d)
       IN  probe' = [probe EXCEPT
                        !.polls = @ + 1,
                        !.last = [remote |-> reply.progress, st |-> st, elapsed |-> probe.elapsed,
                                  sleeps |-> probe.sleeps, passed |-> progress, before |-> probe.synth],
                        !.synth = IF reply.progress = 0 /\ st = "RUNNING" THEN progress ELSE @,
                        !.result = IF returns THEN "returned" ELSE @,
                        !.sleeps = IF returns THEN @ ELSE @ + 1,
                        !.elapsed = IF returns THEN @ ELSE @ + DefaultPollInterval]
    /\ UNCHANGED <<project, tasks, runs, nextAsset, remote, startLimit>>

\* get_task_status raises: the exception leaves the loop
WaitPollRaises ==
    /\ probe.op = "wait" /\ probe.result = None
    /\ LoopContinues(probe.elapsed, DefaultTimeout)
    /\ probe' = [probe EXCEPT !.polls = @ + 1, !.result = "exception"]
    /\ UNCHANGED <<project, tasks, runs, nextAsset, remote, startLimit>>

\* the loop condition fails: TimeoutError
WaitTimeout ==
    /\ probe.op = "wait" /\ probe.result = None
    /\ ~LoopContinues(probe.elapsed, DefaultTimeout)
    /\ probe' = [probe EXCEPT !.result = "timeout"]
    /\ UNCHANGED <<project, tasks, runs, nextAsset, remote, startLimit>>

NextWait == (\E reply \in PollReplies : WaitPoll(reply)) \/ WaitPollRaises \/ WaitTimeout

SpecWait == InitWait /\ [][NextWait]_vars

\* C31: on a poll with remote progress 0 and status RUNNING the callback is
\* given min(95, floor(elapsed * 100 / 60)), where elapsed is the number of
\* completed sleeps times the poll interval; that value is at most 95 and
\* not below the previous synthesized one; a non-zero remote progress is
\* passed on as it is.
SynthesizedProgress ==
    (probe.op = "wait" /\ probe.last # <<>>) =>
        LET l == probe.last
        IN  /\ l.elapsed = l.sleeps * DefaultPollInterval
            /\ (l.remote = 0 /\ l.st = "RUNNING") =>
                  /\ l.passed = Min(95, (l.elapsed * 100) \div 60)
                  /\ l.passed <= 95
                  /\ l.passed >= l.before
            /\ l.remote # 0 => l.passed = l.remote

\* the estimate reaches the cap: 90 at 54 s, 95 from 57 s on
SynthesizedProgressWitness ==
    /\ probe.op = "wait" /\ probe.last # <<>>
    /\ probe.last.remote = 0 /\ probe.last.st = "RUNNING"
    /\ probe.last.elapsed = 60
    /\ probe.last.passed = 95
    /\ probe.last.before = 95

----------------------------------------------------------------------------
(* create_project and update_project *)

NoList == [isNone |-> TRUE, list |-> <<>>]      \* workflow_steps absent from the request
SomeList(l) == [isNone |-> FALSE, list |-> l]

RequestLists == {NoList} \cup {SomeList(l) : l \in SeqsUpTo(StepNames \cup {"other"}, MaxOrderLen)}

\* the two checks made on a workflow_steps list of a request
StepsAccepted(steps, enabled_set) ==
    /\ \A i \in 1..Len(steps) : steps[i] \in Range(_BASE_STEP_ORDER)
    /\ Range(steps) = enabled_set

\* the default of background_person_source in create_project
DefaultBackgroundSource(enable, steps) ==
    IF enable["try_on"] /\ enable["background"]
       /\ "try_on" \in Range(steps) /\ "background" \in Range(steps)
    THEN IF IndexOf(steps, "try_on") < IndexOf(steps, "background")
         THEN "try_on_result" ELSE "model_image"
    ELSE IF enable["try_on"] THEN "try_on_result" ELSE "model_image"

CreateRequests ==
    [enable : [StepNames -> BOOLEAN],
     workflow_steps : RequestLists,
     background_person_source : {None, "model_image", "Try_On_Result", "bogus"},
     try_on_person_source : {None, "UPSTREAM", "bogus"},
     video_person_source : {None, " model_image "}]

\* the row create_project inserts; ok = FALSE is an HTTP 400
CreateResult(d) ==
    LET en == {s \in StepNames : d.enable[s]}
        steps == IF d.workflow_steps.isNone
                 THEN FilterSeq(_BASE_STEP_ORDER, en)
                 ELSE d.workflow_steps.list
        bg_src == IF d.background_person_source \notin {None, ""}
                  THEN StripLower(d.background_person_source)
                  ELSE DefaultBackgroundSource(d.enable, steps)
        try_on_src == _normalize_person_source(d.try_on_person_source)
        video_src == _normalize_person_source(d.video_person_source)
        ok == /\ en # {}
              /\ d.workflow_steps.isNone \/ StepsAccepted(steps, en)
              /\ bg_src \in {"try_on_result", "model_image"}
              /\ try_on_src.ok
              /\ video_src.ok
    IN  [ok |-> ok,
         row |-> MkProject(d.enable, JsonDumps(steps), try_on_src.value, bg_src, video_src.value,
                           NoId, NoId, NoId, NoResults)]

create_project(d) ==
    /\ probe.op = "none"
    /\ IF CreateResult(d).ok
       THEN /\ project' = CreateResult(d).row
            /\ probe' = [NoProbe EXCEPT !.op = "created"]
       ELSE UNCHANGED <<project, probe>>
    /\ UNCHANGED <<tasks, runs, nextAsset, remote, startLimit>>

Unset == "unset"

\* a request sets the flags and the order, or the sources and the base asset
UpdateRequests ==
    [enable : [StepNames -> {Unset, "true", "false"}],
     workflow_steps : RequestLists,
     background_person_source : {None},
     try_on_person_source : {None},
     video_person_source : {None},
     fields_set : {{}},
     model_image_id : {NoId}]
    \cup
    [enable : {[s \in StepNames |-> Unset]},
     workflow_steps : {NoList},
     background_person_source : {None, "model_image", "Try_On_Result", "bogus"},
     try_on_person_source : {None, "UPSTREAM", "bogus"},
     video_person_source : {None},
     fields_set : {{}, {"model_image_id"}},
     model_image_id : {ModelImageId}]

\* lines 356-367: the flags after the request
UpdatedFlags(p, d) ==
    [s \in StepNames |-> IF d.enable[s] = Unset THEN p.enable[s] ELSE d.enable[s] = "true"]

\* the row update_project leaves; ok = FALSE is an HTTP 400 and a rollback
UpdateResult(p, d) ==
    LET flags_changed == \E s \in StepNames : d.enable[s] # Unset
        p1 == [p EXCEPT !.enable = UpdatedFlags(p, d)]
        bg_ok == d.background_person_source = None
                 \/ StripLower(d.background_person_source) \in {"try_on_result", "model_image"}
        p2 == IF d.background_person_source # None
              THEN [p1 EXCEPT !.background_person_source = StripLower(d.background_person_source)]
              ELSE p1
        try_on_src == _normalize_person_source(d.try_on_person_source)
        video_src == _normalize_person_source(d.video_person_source)
        p3 == [p2 EXCEPT !.try_on_person_source =
                             IF d.try_on_person_source # None THEN try_on_src.value ELSE @,
                         !.video_person_source =
                             IF d.video_person_source # None THEN video_src.value ELSE @]
        steps_ok == d.workflow_steps.isNone
                    \/ StepsAccepted(d.workflow_steps.list, EnabledSet(p3))
        p4 == IF ~d.workflow_steps.isNone
              THEN [p3 EXCEPT !.workflow_steps = JsonDumps(d.workflow_steps.list)]
              ELSE IF flags_changed
              THEN [p3 EXCEPT !.workflow_steps = JsonDumps(_steps_for_project(p3))]
              ELSE p3
        p5 == IF ~p4.enable["try_on"] /\ StripLower(p4.background_person_source) = "try_on_result"
              THEN [p4 EXCEPT !.background_person_source = "model_image"]
              ELSE p4
        p6 == IF "model_image_id" \in d.fields_set
              THEN [p5 EXCEPT !.model_image_id = d.model_image_id]
              ELSE p5
    IN  [ok |-> bg_ok /\ try_on_src.ok /\ video_src.ok /\ steps_ok, row |-> p6]

update_project(d) ==
    /\ probe.op = "created"
    /\ IF UpdateResult(project, d).ok
       THEN project' = UpdateResult(project, d).row
       ELSE UNCHANGED project
    /\ UNCHANGED <<tasks, runs, nextAsset, remote, startLimit, probe>>

\* no project yet
InitConfig ==
    /\ project = MkProject([s \in StepNames |-> FALSE], StoredNull, None, "try_on_result", None,
                           NoId, NoId, NoId, NoResults)
    /\ RestInit

NextConfig ==
    \/ \E d \in CreateRequests : create_project(d)
    \/ \E d \in UpdateRequests : update_project(d)

SpecConfig == InitConfig /\ [][NextConfig]_vars

\* C8: after any sequence of successful create_project and update_project
\* calls the stored workflow_steps list holds every enabled step exactly
\* once and nothing else.
StoredOrderIsExactlyEnabledSteps ==
    probe.op = "created" =>
        /\ project.workflow_steps.kind = "list"
        /\ NoDuplicates(project.workflow_steps.items)
        /\ Range(project.workflow_steps.items) = EnabledSet(project)

====
